---------------------------- MODULE Spec2Model ----------------------------
(***************************************************************************)
(* State-machine model of the grid editor in src/CavityTemplate.tsx        *)
(* (component Tableview).  One action per event handler / effect; every    *)
(* action contains the effects React runs before the next event.           *)
(*                                                                         *)
(* Strings that the code formats and parses again (cell ids, merge ids,    *)
(* sequence numbers) are sequences of one-character strings; the only      *)
(* multi-character token is the literal prefix "cell_".                    *)
(***************************************************************************)
EXTENDS Integers, Sequences, FiniteSets

VARIABLES
    props,                    \* feature flags of the widget (fixed per run)
    rowCount, columnCount,    \* useState rowCount / columnCount
    tableRows,                \* useState tableRows
    mergeSpans,               \* useState mergeSpans
    selectedCells,            \* useState selectedCells (set of cell ids)
    isSelectionMode,          \* useState isSelectionMode
    isDragging,               \* useState isDragging
    dragStartCell,            \* useState dragStartCell (NoCell = null)
    preSelectionRef,          \* useRef preSelectionRef
    autofillDrag,             \* useState autofillDrag (+ autofillDragRef)
    autofillPreviewCells,     \* useState autofillPreviewCells (set of cell ids)
    isSaving,                 \* useState isSaving
    dataLoaded,               \* useState dataLoaded
    ignoreAttributeUpdateRef, \* useRef ignoreAttributeUpdateRef
    isUserInputRef,           \* useRef isUserInputRef
    rowCountAttribute,        \* props.rowCountAttribute.value
    columnCountAttribute,     \* props.columnCountAttribute.value
    useAttributeData,         \* props.useAttributeData.value (NoData = "")
    lastSavedDataRef,         \* useRef lastSavedDataRef (NoData = "")
    lastOp,                   \* last handler that ran, with its arguments
    steps,                    \* number of events handled so far
    scn                       \* input alphabet of the run (fixed per run)

vars == << props, rowCount, columnCount, tableRows, mergeSpans, selectedCells,
           isSelectionMode, isDragging, dragStartCell, preSelectionRef,
           autofillDrag, isSaving, dataLoaded, ignoreAttributeUpdateRef,
           isUserInputRef, rowCountAttribute, columnCountAttribute,
           lastOp, steps, scn,
           useAttributeData, lastSavedDataRef, autofillPreviewCells >>

---------------------------------------------------------------------------
(* Bounds of the model *)

\* events handled in one behaviour of the "small" alphabet
MaxSteps == 4
\* events handled in one behaviour of the "wide" alphabet
MaxStepsWide == 7
\* events handled in one behaviour of the "drift" alphabet
MaxStepsDrift == 8
\* ... in a run of the "fill" alphabet
MaxStepsFill == 7
\* ... in a run of the "echo" alphabet
MaxStepsEcho == 6
\* ... in a run of the "limit" alphabet
MaxStepsLimit == 4
\* ... in a run of the "value" alphabet
MaxStepsValue == 4
\* ... in a run of the "reject" alphabet
MaxStepsReject == 4
\* ... in a run of the "select" alphabet
MaxStepsSelect == 5
\* ... in a run of the "press" alphabet
MaxStepsPress == 5

\* the design ceiling of the grid (rows and columns)
MaxDimension == 100

---------------------------------------------------------------------------
(* Numbers <-> decimal strings *)

DigitChars == << "0", "1", "2", "3", "4", "5", "6", "7", "8", "9" >>

IsDigit(ch) == \E i \in 1..10 : DigitChars[i] = ch

DigitVal(ch) == (CHOOSE i \in 1..10 : DigitChars[i] = ch) - 1

RECURSIVE NatToString(_)
NatToString(n) ==
    IF n < 10 THEN << DigitChars[n + 1] >>
    ELSE NatToString(n \div 10) \o << DigitChars[(n % 10) + 1] >>

\* String(value) / template interpolation of an integer
IntToString(n) == IF n < 0 THEN << "-" >> \o NatToString(0 - n) ELSE NatToString(n)

IsSpace(ch) == ch = " "

RECURSIVE TrimLeft(_)
TrimLeft(s) == IF s # << >> /\ IsSpace(Head(s)) THEN TrimLeft(Tail(s)) ELSE s

RECURSIVE TrimRight(_)
TrimRight(s) ==
    IF s # << >> /\ IsSpace(s[Len(s)]) THEN TrimRight(SubSeq(s, 1, Len(s) - 1)) ELSE s

Trim(s) == TrimRight(TrimLeft(s))

AllDigits(s) == s # << >> /\ \A i \in 1..Len(s) : IsDigit(s[i])

isInteger(val) ==
    LET trimmed == Trim(val)
    IN  /\ trimmed # << >>
        /\ trimmed # << "-" >>
        /\ IF Head(trimmed) = "-" THEN AllDigits(Tail(trimmed)) ELSE AllDigits(trimmed)

\* longest prefix of s made of digits
RECURSIVE DigitPrefix(_)
DigitPrefix(s) ==
    IF s # << >> /\ IsDigit(Head(s)) THEN << Head(s) >> \o DigitPrefix(Tail(s)) ELSE << >>

RECURSIVE DigitsToNat(_)
DigitsToNat(s) ==
    IF s = << >> THEN 0
    ELSE 10 * DigitsToNat(SubSeq(s, 1, Len(s) - 1)) + DigitVal(s[Len(s)])

NaN == "NaN"

\* parseInt(s, 10): leading blanks skipped, optional sign, then the digit prefix
parseInt(s) ==
    LET t    == TrimLeft(s)
        neg  == t # << >> /\ Head(t) = "-"
        body == IF t # << >> /\ (Head(t) = "-" \/ Head(t) = "+") THEN Tail(t) ELSE t
        ds   == DigitPrefix(body)
    IN  IF ds = << >> THEN NaN
        ELSE IF neg THEN 0 - DigitsToNat(ds) ELSE DigitsToNat(ds)

---------------------------------------------------------------------------
(* Cell ids and merge ids *)

\* `cell_${r}_${c}`
CellId(r, c) == << "cell_" >> \o IntToString(r) \o << "_" >> \o IntToString(c)

\* index of the first "_" of s, or Len(s) + 1
RECURSIVE FirstSep(_, _)
FirstSep(s, i) ==
    IF i > Len(s) THEN i ELSE IF s[i] = "_" THEN i ELSE FirstSep(s, i + 1)

\* id.replace("cell_", "").split("_") followed by parseInt of parts 0 and 1
ParseCellId(id) ==
    LET s    == IF id # << >> /\ Head(id) = "cell_" THEN Tail(id) ELSE id
        k    == FirstSep(s, 1)
        rest == SubSeq(s, k + 1, Len(s))
        k2   == FirstSep(rest, 1)
    IN  [ row |-> parseInt(SubSeq(s, 1, k - 1)),
          col |-> parseInt(SubSeq(rest, 1, k2 - 1)) ]

\* `${r1}${c1}${r2}${c2}`
createMergeId(r1, c1, r2, c2) ==
    IntToString(r1) \o IntToString(c1) \o IntToString(r2) \o IntToString(c2)

---------------------------------------------------------------------------
(* Cells, rows and lookups *)

\* useAttributeData.value / lastSavedDataRef.current === ""
NoData == << >>

NoCell == [ row |-> 0, col |-> 0 ]

Dash == << "-" >>

\* cell.id: every place that builds a cell sets it to
\* `cell_${rowIndex}_${columnIndex}` of the same cell, so it is not stored
idOf(cell) == CellId(cell.rowIndex, cell.columnIndex)

DefaultCell(r, c) ==
    [ sequenceNumber |-> Dash,
      isBlocked      |-> FALSE,
      isMerged       |-> FALSE,
      mergeId        |-> << >>,
      isBlank        |-> FALSE,
      rowIndex       |-> r,
      columnIndex    |-> c ]

Min(S) == CHOOSE x \in S : \A y \in S : x <= y
Max(S) == CHOOSE x \in S : \A y \in S : x >= y

\* array positions (i, j) of all cells of the grid
CellPositions(rows) ==
    UNION { { << i, j >> : j \in 1..Len(rows[i].cells) } : i \in 1..Len(rows) }

\* rows.find(row => row.rowIndex === r): position of the first match, 0 if none
FindRow(rows, r) ==
    IF \E i \in 1..Len(rows) : rows[i].rowIndex = r
    THEN Min({ i \in 1..Len(rows) : rows[i].rowIndex = r })
    ELSE 0

\* cells.find(cell => cell.columnIndex === c): position of the first match, 0 if none
FindCol(cells, c) ==
    IF \E j \in 1..Len(cells) : cells[j].columnIndex = c
    THEN Min({ j \in 1..Len(cells) : cells[j].columnIndex = c })
    ELSE 0

\* rows.find(..)?.cells.find(..) !== undefined
HasCell(rows, r, c) ==
    /\ FindRow(rows, r) # 0
    /\ FindCol(rows[FindRow(rows, r)].cells, c) # 0

\* rows.find(..)?.cells.find(..), for an existing cell
GetCell(rows, r, c) ==
    LET i == FindRow(rows, r) IN rows[i].cells[FindCol(rows[i].cells, c)]

\* rows.forEach(row => row.cells.forEach(cell => ...)) with a per-cell update
MapCells(rows, F(_)) ==
    [ i \in 1..Len(rows) |->
        [ rows[i] EXCEPT !.cells = [ j \in 1..Len(rows[i].cells) |-> F(rows[i].cells[j]) ] ] ]

\* assignment through the reference returned by find(): only the first match
\* of (r, c) is written
SetFound(rows, r, c, F(_)) ==
    LET i == FindRow(rows, r)
        j == FindCol(rows[i].cells, c)
    IN  [ rows EXCEPT ![i].cells[j] = F(rows[i].cells[j]) ]

---------------------------------------------------------------------------
(* Merge-span index *)

\* computeMergeSpans with the slip of leaving out the + 1 of rowSpan
computeMergeSpansShort(rows) ==
    LET grouped == { p \in CellPositions(rows) :
                       /\ rows[p[1]].cells[p[2]].isMerged
                       /\ rows[p[1]].cells[p[2]].mergeId # << >> }
        ids     == { rows[p[1]].cells[p[2]].mergeId : p \in grouped }
    IN  [ m \in ids |->
            LET positions == { p \in grouped : rows[p[1]].cells[p[2]].mergeId = m }
                rows2  == { rows[p[1]].cells[p[2]].rowIndex : p \in positions }
                cols   == { rows[p[1]].cells[p[2]].columnIndex : p \in positions }
                minRow == Min(rows2)
                maxRow == Max(rows2)
                minCol == Min(cols)
                maxCol == Max(cols)
            IN  [ rowSpan   |-> maxRow - minRow,
                  colSpan   |-> maxCol - minCol + 1,
                  anchorRow |-> minRow,
                  anchorCol |-> minCol ] ]

computeMergeSpans(rows) ==
    LET grouped == { p \in CellPositions(rows) :
                       /\ rows[p[1]].cells[p[2]].isMerged
                       /\ rows[p[1]].cells[p[2]].mergeId # << >> }
        ids     == { rows[p[1]].cells[p[2]].mergeId : p \in grouped }
    IN  [ m \in ids |->
            LET positions == { p \in grouped : rows[p[1]].cells[p[2]].mergeId = m }
                rows2  == { rows[p[1]].cells[p[2]].rowIndex : p \in positions }
                cols   == { rows[p[1]].cells[p[2]].columnIndex : p \in positions }
                minRow == Min(rows2)
                maxRow == Max(rows2)
                minCol == Min(cols)
                maxCol == Max(cols)
            IN  [ rowSpan   |-> maxRow - minRow + 1,
                  colSpan   |-> maxCol - minCol + 1,
                  anchorRow |-> minRow,
                  anchorCol |-> minCol ] ]

isCellHidden(cell, spans) ==
    IF ~cell.isMerged \/ cell.mergeId = << >> THEN FALSE
    ELSE IF cell.mergeId \notin DOMAIN spans THEN FALSE
    ELSE ~(cell.rowIndex = spans[cell.mergeId].anchorRow
           /\ cell.columnIndex = spans[cell.mergeId].anchorCol)

\* the four numbers updateCellStatistics writes to the statistics attributes
updateCellStatistics(rows, spans) ==
    [ totalCells   |-> Cardinality(CellPositions(rows)),
      blockedCells |-> Cardinality({ p \in CellPositions(rows) :
                                       rows[p[1]].cells[p[2]].isBlocked }),
      mergedCells  |-> Cardinality({ p \in CellPositions(rows) :
                                       /\ rows[p[1]].cells[p[2]].isMerged
                                       /\ ~isCellHidden(rows[p[1]].cells[p[2]], spans) }),
      blankCells   |-> Cardinality({ p \in CellPositions(rows) :
                                       /\ rows[p[1]].cells[p[2]].isBlank
                                       /\ ~isCellHidden(rows[p[1]].cells[p[2]], spans) }) ]

---------------------------------------------------------------------------
(* Insertion-ordered sets (JavaScript Set), kept as duplicate-free sequences *)

SetOf(s) == { s[i] : i \in 1..Len(s) }

\* Set.prototype.add
SeqAdd(s, x) == IF x \in SetOf(s) THEN s ELSE Append(s, x)

\* Set.prototype.delete
SeqDelete(s, x) == SelectSeq(s, LAMBDA y : y # x)

\* t.forEach(x => s.add(x)): the elements of t that are new, in their order
\* of first occurrence, after those of s
SeqUnion(s, t) ==
    LET keep == { i \in 1..Len(t) :
                    /\ t[i] \notin SetOf(s)
                    /\ \A j \in 1..(i - 1) : t[j] # t[i] }
        nth(k) == CHOOSE i \in keep : Cardinality({ j \in keep : j <= i }) = k
    IN  s \o [ k \in 1..Cardinality(keep) |-> t[nth(k)] ]

---------------------------------------------------------------------------
(* Selection helpers *)

getRectangularSelection(startRow, startCol, endRow, endCol) ==
    LET minRow == Min({ startRow, endRow })
        maxRow == Max({ startRow, endRow })
        minCol == Min({ startCol, endCol })
        maxCol == Max({ startCol, endCol })
        w      == maxCol - minCol + 1
        n      == (maxRow - minRow + 1) * w
    IN  [ k \in 1..n |-> CellId(minRow + ((k - 1) \div w), minCol + ((k - 1) % w)) ]

---------------------------------------------------------------------------
(* Autofill run *)

\* isFillable with the slip of leaving out the blank test
isFillableIgnoringBlank(cell, spans) ==
    IF isCellHidden(cell, spans) THEN FALSE
    ELSE TRUE

isFillable(cell, spans) ==
    IF cell.isBlank THEN FALSE
    ELSE IF isCellHidden(cell, spans) THEN FALSE
    ELSE TRUE

\* one of the four loops of getAutofillCells: from (r, c) in steps of (dr, dc),
\* at most n cells, value startVal + counter, stopping at the first cell that
\* is missing or not fillable
RECURSIVE AutofillWalk(_, _, _, _, _, _, _, _, _)
AutofillWalk(rows, spans, r, c, dr, dc, n, startVal, counter) ==
    IF n <= 0 THEN << >>
    ELSE IF ~HasCell(rows, r, c) THEN << >>
    ELSE IF ~isFillable(GetCell(rows, r, c), spans) THEN << >>
    ELSE << [ row |-> r, col |-> c, value |-> startVal + counter ] >>
         \o AutofillWalk(rows, spans, r + dr, c + dc, dr, dc, n - 1, startVal, counter + 1)

\* getAutofillCells with the slip of starting the step counter at 0 instead
\* of 1
getAutofillCellsFromZero(rows, spans, sourceRow, sourceCol, targetRow, targetCol, direction) ==
    IF direction = "none" THEN << >>
    ELSE IF ~HasCell(rows, sourceRow, sourceCol) THEN << >>
    ELSE IF ~isInteger(GetCell(rows, sourceRow, sourceCol).sequenceNumber) THEN << >>
    ELSE
      LET startVal == parseInt(GetCell(rows, sourceRow, sourceCol).sequenceNumber)
      IN  IF direction = "horizontal"
          THEN IF targetCol > sourceCol
               THEN AutofillWalk(rows, spans, sourceRow, sourceCol + 1, 0, 1,
                                 Max({ sourceCol, targetCol }) - sourceCol, startVal, 0)
               ELSE AutofillWalk(rows, spans, sourceRow, sourceCol - 1, 0, -1,
                                 sourceCol - Min({ sourceCol, targetCol }), startVal, 0)
          ELSE IF targetRow > sourceRow
               THEN AutofillWalk(rows, spans, sourceRow + 1, sourceCol, 1, 0,
                                 Max({ sourceRow, targetRow }) - sourceRow, startVal, 0)
               ELSE AutofillWalk(rows, spans, sourceRow - 1, sourceCol, -1, 0,
                                 sourceRow - Min({ sourceRow, targetRow }), startVal, 0)

getAutofillCells(rows, spans, sourceRow, sourceCol, targetRow, targetCol, direction) ==
    IF direction = "none" THEN << >>
    ELSE IF ~HasCell(rows, sourceRow, sourceCol) THEN << >>
    ELSE IF ~isInteger(GetCell(rows, sourceRow, sourceCol).sequenceNumber) THEN << >>
    ELSE
      LET startVal == parseInt(GetCell(rows, sourceRow, sourceCol).sequenceNumber)
      IN  IF direction = "horizontal"
          THEN IF targetCol > sourceCol
               THEN AutofillWalk(rows, spans, sourceRow, sourceCol + 1, 0, 1,
                                 Max({ sourceCol, targetCol }) - sourceCol, startVal, 1)
               ELSE AutofillWalk(rows, spans, sourceRow, sourceCol - 1, 0, -1,
                                 sourceCol - Min({ sourceCol, targetCol }), startVal, 1)
          ELSE IF targetRow > sourceRow
               THEN AutofillWalk(rows, spans, sourceRow + 1, sourceCol, 1, 0,
                                 Max({ sourceRow, targetRow }) - sourceRow, startVal, 1)
               ELSE AutofillWalk(rows, spans, sourceRow - 1, sourceCol, -1, 0,
                                 sourceRow - Min({ sourceRow, targetRow }), startVal, 1)

NoAutofillDrag ==
    [ active |-> FALSE, sourceRow |-> 0, sourceCol |-> 0, sourceValue |-> 0,
      direction |-> "none", currentRow |-> 0, currentCol |-> 0 ]

\* the run of a drag state: what handleCellMouseEnterAutofill previews and
\* handleAutofillMouseUp commits
commitRun(rows, spans, drag) ==
    getAutofillCells(rows, spans, drag.sourceRow, drag.sourceCol,
                     IF drag.direction = "horizontal" THEN drag.sourceRow ELSE drag.currentRow,
                     IF drag.direction = "vertical" THEN drag.sourceCol ELSE drag.currentCol,
                     drag.direction)

---------------------------------------------------------------------------
(* Input alphabets.  A run draws its events from one alphabet:              *)
(*   "small": every handler, on every rendered cell of a grid that starts   *)
(*            as 2 x 2, with every snapshot and external count;             *)
(*   "wide" : an 11 x 12 grid, where row and column numbers have two        *)
(*            digits; shift-presses on four cells of its border and clicks  *)
(*            on the first of them;                                         *)
(*   "drift": a 2 x 1 grid whose row count attribute is changed from        *)
(*            outside; pointer events without shift;                        *)
(*   "fill" : autofill drags on a loaded 3-row grid with a blank cell, a    *)
(*            merge group and a short last row;                             *)
(*   "echo" : saves and loads on a 2 x 2 grid, with the timer that ends a   *)
(*            save;                                                         *)
(*   "limit": dimensions at and beyond the ceiling of 100: count attributes *)
(*            of 101 and -1 at mount, a snapshot of 101 rows, external      *)
(*            counts of 100; clicks on cell (1,1) only;                     *)
(*   "value": the callbacks handleCellValueChange and handleCheckboxChange *)
(*            called for (1,1), (2,1) and (3,1) on the empty grid and on a  *)
(*            loaded 2 x 2 grid, whether or not the coordinate holds a      *)
(*            cell; no rendered cell raises an event for a coordinate       *)
(*            without a cell, so these runs are kept out of Spec;           *)
(*   "reject": attributes 2 x 2, snapshots that the load effect must turn   *)
(*            away next to one well-formed snapshot;                        *)
(*   "select": presses with and without shift, hovers, releases, clicks     *)
(*            with and without ctrl and handle presses on a loaded 2 x 2    *)
(*            grid, with selection enabled and disabled; these runs are     *)
(*            checked on their own (SpecSelect);                            *)
(*   "press": autofill drags on the grid of "fill" in which the callback    *)
(*            handleAutofillHandleMouseDown is called for cells with and    *)
(*            without a number and for a coordinate without a cell; the     *)
(*            handle is rendered on cells with a number only, so these runs *)
(*            are kept out of Spec.                                         *)

Scenarios == { "small", "wide", "drift", "fill", "echo", "limit", "reject" }

AllOps ==
    { "initialCreate", "applyDimensions", "addRow", "addColumn",
      "handleCellValueChange", "onClick", "handleCellMouseDown", "onMouseEnter",
      "mouseup", "selectAllCells", "clearSelection", "mergeCells", "unmergeCells",
      "blankSelectedCells", "unblankSelectedCells", "handleAutofillHandleMouseDown",
      "load", "rowCountAttribute", "columnCountAttribute",
      "isSavingTimeout", "isUserInputTimeout" }

WideOps == { "initialCreate", "handleCellMouseDown", "onClick", "mergeCells" }

DriftOps ==
    { "initialCreate", "rowCountAttribute", "addRow", "handleCellMouseDown",
      "onMouseEnter", "mouseup", "onClick", "mergeCells" }

FillOps == { "load", "handleAutofillHandleMouseDown", "onMouseEnter", "mouseup" }

EchoOps == { "initialCreate", "onClick", "addRow", "load", "isSavingTimeout" }

LimitOps ==
    { "initialCreate", "applyDimensions", "addRow", "addColumn", "onClick", "load",
      "rowCountAttribute", "columnCountAttribute", "isUserInputTimeout" }

ValueOps == { "load", "handleCellValueChange", "handleCheckboxChange" }

RejectOps == { "initialCreate", "load", "addRow", "onClick" }

SelectOps ==
    { "load", "handleCellMouseDown", "onMouseEnter", "mouseup", "onClick",
      "handleAutofillHandleMouseDown" }

PressOps == { "load", "handleAutofillHandleMouseDown", "onMouseEnter", "mouseup" }

Alphabet ==
    CASE scn = "small" -> AllOps
      [] scn = "wide"  -> WideOps
      [] scn = "drift" -> DriftOps
      [] scn = "fill"  -> FillOps
      [] scn = "echo"  -> EchoOps
      [] scn = "limit" -> LimitOps
      [] scn = "value" -> ValueOps
      [] scn = "reject" -> RejectOps
      [] scn = "select" -> SelectOps
      [] scn = "press" -> PressOps

Budget ==
    CASE scn = "small" -> MaxSteps
      [] scn = "wide"  -> MaxStepsWide
      [] scn = "drift" -> MaxStepsDrift
      [] scn = "fill"  -> MaxStepsFill
      [] scn = "echo"  -> MaxStepsEcho
      [] scn = "limit" -> MaxStepsLimit
      [] scn = "value" -> MaxStepsValue
      [] scn = "reject" -> MaxStepsReject
      [] scn = "select" -> MaxStepsSelect
      [] scn = "press" -> MaxStepsPress

InitialDims(s) ==
    CASE s = "small" -> { << 2, 2 >> }
      [] s = "wide"  -> { << 11, 12 >> }
      [] s = "drift" -> { << 2, 1 >> }
      [] s = "fill"  -> { << 3, 4 >> }
      [] s = "echo"  -> { << 2, 2 >> }
      [] s = "limit" -> { << 2, 2 >>, << MaxDimension + 1, 1 >>, << -1, 2 >> }
      [] s = "value" -> { << 2, 2 >> }
      [] s = "reject" -> { << 2, 2 >> }
      [] s = "select" -> { << 2, 2 >> }
      [] s = "press" -> { << 3, 4 >> }

ExternalCounts ==
    CASE scn = "drift" -> { 3 }
      [] scn = "limit" -> { MaxDimension }
      [] OTHER         -> { 1, 3 }

InputValues == { Dash, << "5" >> }

\* shift held on a press
PressMods ==
    CASE scn = "small" -> BOOLEAN
      [] scn = "wide"  -> { TRUE }
      [] scn = "drift" -> { FALSE }
      [] scn = "fill"  -> { FALSE }
      [] scn = "echo"  -> { FALSE }
      [] scn = "limit" -> { FALSE }
      [] scn = "value" -> { FALSE }
      [] scn = "reject" -> { FALSE }
      [] scn = "select" -> BOOLEAN
      [] scn = "press" -> { FALSE }

\* ctrl / cmd held on a click
ClickMods ==
    CASE scn = "small" -> BOOLEAN
      [] scn = "wide"  -> { FALSE }
      [] scn = "drift" -> { TRUE }
      [] scn = "fill"  -> { FALSE }
      [] scn = "echo"  -> { FALSE }
      [] scn = "limit" -> { FALSE }
      [] scn = "value" -> { FALSE }
      [] scn = "reject" -> { FALSE }
      [] scn = "select" -> BOOLEAN
      [] scn = "press" -> { FALSE }

\* merging, blanking, checkbox and editing enabled; autoSave is off in every
\* run, so the autoSave effect never saves
AllOn ==
    [ isSelectionAllowed |-> TRUE, enableCheckbox |-> TRUE, enableCellEditing |-> TRUE,
      autoSave |-> FALSE ]

NoCheckbox == [ AllOn EXCEPT !.enableCheckbox = FALSE ]

\* props.isSelectionAllowed is false
NoSelection == [ NoCheckbox EXCEPT !.isSelectionAllowed = FALSE ]

PropsSet(s) ==
    IF s = "drift" THEN { NoCheckbox }
    ELSE IF s = "select" THEN { NoCheckbox, NoSelection }
    ELSE { AllOn }

WideTargets == { << 1, 11 >>, << 1, 12 >>, << 11, 1 >>, << 11, 2 >> }

WideClickTargets == { << 1, 11 >> }

LimitTargets == { << 1, 1 >> }

\* coordinates the handlers are called with in the "value" alphabet
ValueTargets == { << 1, 1 >>, << 2, 1 >>, << 3, 1 >> }

\* coordinates handleAutofillHandleMouseDown is called with in the "press"
\* alphabet: cells holding 5, - and -4 in the grid of SnapFill, and a
\* coordinate below its last row
PressTargets == { << 1, 1 >>, << 1, 2 >>, << 3, 3 >>, << 4, 1 >> }

\* positions an event of handler name may name, among the cells that have
\* the element
Targets(name, rendered) ==
    IF name \notin Alphabet THEN { }
    ELSE IF scn = "wide"
         THEN { p \in (IF name = "onClick" THEN WideClickTargets ELSE WideTargets) :
                  p \in rendered }
         ELSE IF scn = "limit" THEN { p \in LimitTargets : p \in rendered }
         ELSE IF scn = "value" THEN ValueTargets
         ELSE IF scn = "press" /\ name = "handleAutofillHandleMouseDown" THEN PressTargets
         ELSE rendered

---------------------------------------------------------------------------
(* Initial state: the component right after its first render *)

DefaultDim == 3

getInitialRows(attr) == IF attr # 0 THEN attr ELSE DefaultDim

getInitialColumns(attr) == IF attr # 0 THEN attr ELSE DefaultDim

NoOp == [ name |-> "mount", row |-> 0, col |-> 0, mod |-> FALSE, applied |-> FALSE ]

\* the component right after its first render, in one of the scenarios S
InitIn(S) ==
    /\ scn \in S
    /\ \E flags \in PropsSet(scn), d \in InitialDims(scn) :
          /\ rowCountAttribute = d[1]
          /\ columnCountAttribute = d[2]
          /\ rowCount = getInitialRows(d[1])
          /\ columnCount = getInitialColumns(d[2])
          /\ props = [ isSelectionAllowed |-> flags.isSelectionAllowed,
                       enableCheckbox     |-> flags.enableCheckbox,
                       enableCellEditing  |-> flags.enableCellEditing,
                       autoSave           |-> flags.autoSave,
                       mountRows          |-> getInitialRows(d[1]),
                       mountCols          |-> getInitialColumns(d[2]) ]
    /\ tableRows = << >>
    /\ mergeSpans = << >>
    /\ selectedCells = << >>
    /\ isSelectionMode = FALSE
    /\ isDragging = FALSE
    /\ dragStartCell = NoCell
    /\ preSelectionRef = << >>
    /\ autofillDrag = NoAutofillDrag
    /\ autofillPreviewCells = { }
    /\ isSaving = FALSE
    /\ dataLoaded = FALSE
    /\ ignoreAttributeUpdateRef = FALSE
    /\ isUserInputRef = FALSE
    /\ useAttributeData = NoData
    /\ lastSavedDataRef = NoData
    /\ lastOp = NoOp
    /\ steps = 0

Init == InitIn(Scenarios)

---------------------------------------------------------------------------
(* Pieces shared by the handlers *)

\* bookkeeping of one handled event
\* (applied: the handler passed its own checks and did its work)
Step(name, r, c, m, applied) ==
    /\ steps < Budget
    /\ name \in Alphabet
    /\ steps' = steps + 1
    /\ lastOp' = [ name |-> name, row |-> r, col |-> c, mod |-> m, applied |-> applied ]
    /\ UNCHANGED << scn, props >>

\* SetTableRows with the slip of leaving out the effect that recomputes
\* mergeSpans
SetTableRowsWithoutSync(rows1) ==
    /\ tableRows' = rows1
    /\ UNCHANGED mergeSpans

\* setTableRows(rows1) followed by the effect that keeps mergeSpans in sync
SetTableRows(rows1) ==
    /\ tableRows' = rows1
    /\ mergeSpans' = computeMergeSpans(rows1)

\* one run of the rowCountAttribute / columnCountAttribute effect
attributeEffect(ignore, attr, count, userInput) ==
    IF ignore THEN [ ignore |-> FALSE, count |-> count ]
    ELSE IF attr > 0 /\ attr <= MaxDimension /\ attr # count /\ ~userInput
         THEN [ ignore |-> FALSE, count |-> attr ]
         ELSE [ ignore |-> FALSE, count |-> count ]

\* the two count effects after a handler left the counts at rc1 / cc1, the
\* attributes at ra1 / ca1 and the refs at ign1 / ui1; an effect runs when one
\* of its dependencies changed
CountEffects(rc1, cc1, ra1, ca1, ign1, ui1) ==
    LET rowRuns == ra1 # rowCountAttribute \/ rc1 # rowCount
        r == IF rowRuns THEN attributeEffect(ign1, ra1, rc1, ui1)
             ELSE [ ignore |-> ign1, count |-> rc1 ]
        colRuns == ca1 # columnCountAttribute \/ cc1 # columnCount
        c == IF colRuns THEN attributeEffect(r.ignore, ca1, cc1, ui1)
             ELSE [ ignore |-> r.ignore, count |-> cc1 ]
    IN  /\ rowCount' = r.count
        /\ columnCount' = c.count
        /\ rowCountAttribute' = ra1
        /\ columnCountAttribute' = ca1
        /\ ignoreAttributeUpdateRef' = c.ignore

\* the tableData object of saveToBackend (metadata stands for the time stamp
\* that only written snapshots carry)
TableData(rows, rowCnt, colCnt) ==
    [ rows |-> rowCnt, columns |-> colCnt, tableRows |-> rows, metadata |-> "updatedAt" ]

\* saveToBackend(rows, rowCnt, colCnt) called by a handler that leaves the
\* counts at rc1 / cc1; rows is what the caller has just handed to
\* setTableRows
saveToBackend(rc1, cc1, rowCnt, colCnt, ui1) ==
    /\ isSaving' = TRUE
    /\ lastSavedDataRef' = TableData(tableRows', rowCnt, colCnt)
    /\ useAttributeData' = TableData(tableRows', rowCnt, colCnt)
    /\ CountEffects(rc1, cc1, rowCnt, colCnt, TRUE, ui1)

NoSave == UNCHANGED << isSaving, rowCount, columnCount, rowCountAttribute,
                       columnCountAttribute, ignoreAttributeUpdateRef,
                       useAttributeData, lastSavedDataRef >>

resetDragState ==
    /\ isDragging' = FALSE
    /\ dragStartCell' = NoCell
    /\ preSelectionRef' = << >>

selVars == << selectedCells, isSelectionMode >>
dragVars == << isDragging, dragStartCell, preSelectionRef >>
gridVars == << tableRows, mergeSpans >>

\* cells for which a <td> exists: the (rowIndex, columnIndex) of every cell
\* that is not hidden
RenderedCells ==
    { << tableRows[p[1]].cells[p[2]].rowIndex, tableRows[p[1]].cells[p[2]].columnIndex >> :
        p \in { q \in CellPositions(tableRows) :
                  ~isCellHidden(tableRows[q[1]].cells[q[2]], mergeSpans) } }

\* position (i, j) is what find() returns for its own (rowIndex, columnIndex)
IsFirstMatch(rows, i, j) ==
    /\ FindRow(rows, rows[i].rowIndex) = i
    /\ FindCol(rows[i].cells, rows[i].cells[j].columnIndex) = j

\* write F onto every cell that find() returns for a position satisfying P
MapFound(rows, P(_, _), F(_)) ==
    [ i \in 1..Len(rows) |->
        [ rows[i] EXCEPT !.cells =
            [ j \in 1..Len(rows[i].cells) |->
                IF IsFirstMatch(rows, i, j) /\ P(rows[i].rowIndex, rows[i].cells[j].columnIndex)
                THEN F(rows[i].cells[j])
                ELSE rows[i].cells[j] ] ] ]

---------------------------------------------------------------------------
(* Grid model: create, add row, add column *)

NewTable(rows, cols) ==
    [ i \in 1..rows |->
        [ rowIndex |-> i, cells |-> [ j \in 1..cols |-> DefaultCell(i, j) ] ] ]

\* the body of createNewTable(rows, cols) for rows, cols > 0, called by a
\* handler that leaves the attributes' ignore flag set
createNewTable(rows, cols) ==
    /\ SetTableRows(NewTable(rows, cols))
    /\ selectedCells' = << >>
    /\ isSelectionMode' = FALSE
    /\ dataLoaded' = TRUE
    /\ saveToBackend(rowCount, columnCount, rows, cols, isUserInputRef)

\* the timer of the mount effect
InitialCreate ==
    /\ Step("initialCreate", 0, 0, FALSE, props.mountRows > 0 /\ props.mountCols > 0)
    /\ ~dataLoaded
    /\ IF props.mountRows <= 0 \/ props.mountCols <= 0
       THEN UNCHANGED << gridVars, selVars, dataLoaded >> /\ NoSave
       ELSE createNewTable(props.mountRows, props.mountCols)
    /\ UNCHANGED << dragVars, autofillDrag, autofillPreviewCells, isUserInputRef >>

\* applyDimensions with the slip of leaving out the test against 100
applyDimensionsWithoutCeiling ==
    /\ Step("applyDimensions", 0, 0, FALSE, ~(rowCount <= 0 \/ columnCount <= 0))
    /\ IF rowCount <= 0 \/ columnCount <= 0
       THEN UNCHANGED << gridVars, selVars, dataLoaded >> /\ NoSave
       ELSE createNewTable(rowCount, columnCount)
    /\ UNCHANGED << dragVars, autofillDrag, autofillPreviewCells, isUserInputRef >>

\* the Generate Table button without a configured onGenerateTable action
applyDimensions ==
    /\ Step("applyDimensions", 0, 0, FALSE,
            ~(rowCount <= 0 \/ columnCount <= 0
              \/ rowCount > MaxDimension \/ columnCount > MaxDimension))
    /\ IF rowCount <= 0 \/ columnCount <= 0
          \/ rowCount > MaxDimension \/ columnCount > MaxDimension
       THEN UNCHANGED << gridVars, selVars, dataLoaded >> /\ NoSave
       ELSE createNewTable(rowCount, columnCount)
    /\ UNCHANGED << dragVars, autofillDrag, autofillPreviewCells, isUserInputRef >>

\* addRow with the slip of testing rowCount instead of rowCount + 1
addRowTestingOldCount ==
    /\ Step("addRow", 0, 0, FALSE, rowCount <= MaxDimension)
    /\ LET newRowCount == rowCount + 1
       IN  IF rowCount > MaxDimension
           THEN UNCHANGED << gridVars, isUserInputRef >> /\ NoSave
           ELSE /\ isUserInputRef' = TRUE
                /\ SetTableRows(Append(tableRows,
                       [ rowIndex |-> newRowCount,
                         cells |-> [ j \in 1..columnCount |-> DefaultCell(newRowCount, j) ] ]))
                /\ saveToBackend(newRowCount, columnCount, newRowCount, columnCount, TRUE)
    /\ UNCHANGED << selVars, dragVars, autofillDrag, autofillPreviewCells, dataLoaded >>

addRow ==
    /\ Step("addRow", 0, 0, FALSE, rowCount + 1 <= MaxDimension)
    /\ LET newRowCount == rowCount + 1
       IN  IF newRowCount > MaxDimension
           THEN UNCHANGED << gridVars, isUserInputRef >> /\ NoSave
           ELSE /\ isUserInputRef' = TRUE
                /\ SetTableRows(Append(tableRows,
                       [ rowIndex |-> newRowCount,
                         cells |-> [ j \in 1..columnCount |-> DefaultCell(newRowCount, j) ] ]))
                /\ saveToBackend(newRowCount, columnCount, newRowCount, columnCount, TRUE)
    /\ UNCHANGED << selVars, dragVars, autofillDrag, autofillPreviewCells, dataLoaded >>

\* addColumn with the slip of leaving out the row's cells (...row.cells)
addColumnWithoutOldCells ==
    /\ Step("addColumn", 0, 0, FALSE, columnCount + 1 <= MaxDimension)
    /\ LET newColCount == columnCount + 1
       IN  IF newColCount > MaxDimension
           THEN UNCHANGED << gridVars, isUserInputRef >> /\ NoSave
           ELSE /\ isUserInputRef' = TRUE
                /\ SetTableRows([ i \in 1..Len(tableRows) |->
                       [ tableRows[i] EXCEPT !.cells =
                           << DefaultCell(tableRows[i].rowIndex, newColCount) >> ] ])
                /\ saveToBackend(rowCount, newColCount, rowCount, newColCount, TRUE)
    /\ UNCHANGED << selVars, dragVars, autofillDrag, autofillPreviewCells, dataLoaded >>

addColumn ==
    /\ Step("addColumn", 0, 0, FALSE, columnCount + 1 <= MaxDimension)
    /\ LET newColCount == columnCount + 1
       IN  IF newColCount > MaxDimension
           THEN UNCHANGED << gridVars, isUserInputRef >> /\ NoSave
           ELSE /\ isUserInputRef' = TRUE
                /\ SetTableRows([ i \in 1..Len(tableRows) |->
                       [ tableRows[i] EXCEPT !.cells =
                           Append(@, DefaultCell(tableRows[i].rowIndex, newColCount)) ] ])
                /\ saveToBackend(rowCount, newColCount, rowCount, newColCount, TRUE)
    /\ UNCHANGED << selVars, dragVars, autofillDrag, autofillPreviewCells, dataLoaded >>

---------------------------------------------------------------------------
(* Value and blocked flag *)

\* setCellValue with the slip of writing the found cell alone
setCellValueTargetOnly(rows, rowIndex, colIndex, newValue) ==
    IF ~HasCell(rows, rowIndex, colIndex) THEN rows
    ELSE SetFound(rows, rowIndex, colIndex,
                  LAMBDA cell : [ cell EXCEPT !.sequenceNumber = newValue ])

\* the state updater of handleCellValueChange
setCellValue(rows, rowIndex, colIndex, newValue) ==
    IF ~HasCell(rows, rowIndex, colIndex) THEN rows
    ELSE LET written == SetFound(rows, rowIndex, colIndex,
                                 LAMBDA cell : [ cell EXCEPT !.sequenceNumber = newValue ])
             mergeId == GetCell(rows, rowIndex, colIndex).mergeId
         IN  IF mergeId # << >>
             THEN MapCells(written, LAMBDA cell :
                      IF cell.mergeId = mergeId
                      THEN [ cell EXCEPT !.sequenceNumber = newValue ] ELSE cell)
             ELSE written

\* the state updater of handleCheckboxChange
toggleCellBlocked(rows, rowIndex, colIndex) ==
    IF ~HasCell(rows, rowIndex, colIndex) THEN rows
    ELSE LET newBlocked == ~GetCell(rows, rowIndex, colIndex).isBlocked
             written == SetFound(rows, rowIndex, colIndex,
                                 LAMBDA cell : [ cell EXCEPT !.isBlocked = newBlocked ])
             mergeId == GetCell(rows, rowIndex, colIndex).mergeId
         IN  IF mergeId # << >>
             THEN MapCells(written, LAMBDA cell :
                      IF cell.mergeId = mergeId
                      THEN [ cell EXCEPT !.isBlocked = newBlocked ] ELSE cell)
             ELSE written

\* typing into the text input of a rendered cell
handleCellValueChange(rowIndex, colIndex, newValue) ==
    /\ Step("handleCellValueChange", rowIndex, colIndex, FALSE,
            HasCell(tableRows, rowIndex, colIndex))
    /\ SetTableRows(setCellValue(tableRows, rowIndex, colIndex, newValue))
    /\ IF props.autoSave /\ HasCell(tableRows, rowIndex, colIndex)
       THEN saveToBackend(rowCount, columnCount, rowCount, columnCount, isUserInputRef)
       ELSE NoSave
    /\ UNCHANGED << selVars, dragVars, autofillDrag, autofillPreviewCells, dataLoaded, isUserInputRef >>

\* the callback handleCheckboxChange alone, as the click handler of a cell
\* calls it before handleCellClick
handleCheckboxChange(rowIndex, colIndex) ==
    /\ Step("handleCheckboxChange", rowIndex, colIndex, FALSE,
            HasCell(tableRows, rowIndex, colIndex))
    /\ SetTableRows(toggleCellBlocked(tableRows, rowIndex, colIndex))
    /\ IF props.autoSave /\ HasCell(tableRows, rowIndex, colIndex)
       THEN saveToBackend(rowCount, columnCount, rowCount, columnCount, isUserInputRef)
       ELSE NoSave
    /\ UNCHANGED << selVars, dragVars, autofillDrag, autofillPreviewCells, dataLoaded, isUserInputRef >>

---------------------------------------------------------------------------
(* Selection engine *)

\* clickSelection with the slip of leaving out the test s.size > 1
clickSelectionToggling(sel, mode, cellId, isCtrlOrCmd) ==
    IF mode
    THEN IF isCtrlOrCmd
         THEN IF cellId \in SetOf(sel)
              THEN SeqDelete(sel, cellId) ELSE SeqAdd(sel, cellId)
         ELSE IF cellId \in SetOf(sel) /\ Len(sel) = 1
              THEN sel ELSE SeqAdd(sel, cellId)
    ELSE << cellId >>

\* the state updater / assignments of handleCellClick
clickSelection(sel, mode, cellId, isCtrlOrCmd) ==
    IF mode
    THEN IF isCtrlOrCmd
         THEN IF cellId \in SetOf(sel) /\ Len(sel) > 1
              THEN SeqDelete(sel, cellId) ELSE SeqAdd(sel, cellId)
         ELSE IF cellId \in SetOf(sel) /\ Len(sel) = 1
              THEN sel ELSE SeqAdd(sel, cellId)
    ELSE << cellId >>

\* onClick of a <td>: handleCheckboxChange (when enabled), then handleCellClick
onClick(rowIndex, colIndex, isCtrlOrCmd) ==
    /\ Step("onClick", rowIndex, colIndex, isCtrlOrCmd,
            props.isSelectionAllowed /\ ~isDragging)
    /\ IF props.enableCheckbox
       THEN SetTableRows(toggleCellBlocked(tableRows, rowIndex, colIndex))
       ELSE UNCHANGED gridVars
    /\ IF ~props.isSelectionAllowed \/ isDragging
       THEN UNCHANGED selVars
       ELSE /\ selectedCells' = clickSelection(selectedCells, isSelectionMode,
                                               CellId(rowIndex, colIndex), isCtrlOrCmd)
            /\ isSelectionMode' = TRUE
    /\ IF props.enableCheckbox /\ props.autoSave /\ HasCell(tableRows, rowIndex, colIndex)
       THEN saveToBackend(rowCount, columnCount, rowCount, columnCount, isUserInputRef)
       ELSE NoSave
    /\ UNCHANGED << dragVars, autofillDrag, autofillPreviewCells, dataLoaded, isUserInputRef >>

\* handleCellMouseDown with the slip of leaving out the test of
\* autofillDragRef.current.active
handleCellMouseDownDuringAutofill(rowIndex, colIndex, shiftKey) ==
    /\ Step("handleCellMouseDown", rowIndex, colIndex, shiftKey,
            props.isSelectionAllowed)
    /\ IF ~props.isSelectionAllowed
       THEN UNCHANGED << selVars, dragVars >>
       ELSE /\ preSelectionRef' = selectedCells
            /\ isDragging' = TRUE
            /\ dragStartCell' = [ row |-> rowIndex, col |-> colIndex ]
            /\ isSelectionMode' = TRUE
            /\ selectedCells' = IF shiftKey
                                THEN SeqAdd(selectedCells, CellId(rowIndex, colIndex))
                                ELSE << CellId(rowIndex, colIndex) >>
    /\ NoSave
    /\ UNCHANGED << gridVars, autofillDrag, autofillPreviewCells, dataLoaded, isUserInputRef >>

handleCellMouseDown(rowIndex, colIndex, shiftKey) ==
    /\ Step("handleCellMouseDown", rowIndex, colIndex, shiftKey,
            props.isSelectionAllowed /\ ~autofillDrag.active)
    /\ IF ~props.isSelectionAllowed \/ autofillDrag.active
       THEN UNCHANGED << selVars, dragVars >>
       ELSE /\ preSelectionRef' = selectedCells
            /\ isDragging' = TRUE
            /\ dragStartCell' = [ row |-> rowIndex, col |-> colIndex ]
            /\ isSelectionMode' = TRUE
            /\ selectedCells' = IF shiftKey
                                THEN SeqAdd(selectedCells, CellId(rowIndex, colIndex))
                                ELSE << CellId(rowIndex, colIndex) >>
    /\ NoSave
    /\ UNCHANGED << gridVars, autofillDrag, autofillPreviewCells, dataLoaded, isUserInputRef >>

\* the direction with the slip of > for >= (ties go to vertical)
autofillDirectionTiesVertical(sourceRow, sourceCol, rowIndex, colIndex) ==
    IF rowIndex = sourceRow /\ colIndex # sourceCol THEN "horizontal"
    ELSE IF colIndex = sourceCol /\ rowIndex # sourceRow THEN "vertical"
    ELSE IF rowIndex # sourceRow /\ colIndex # sourceCol
         THEN LET rowDelta == IF rowIndex >= sourceRow THEN rowIndex - sourceRow
                              ELSE sourceRow - rowIndex
                  colDelta == IF colIndex >= sourceCol THEN colIndex - sourceCol
                              ELSE sourceCol - colIndex
              IN  IF colDelta > rowDelta THEN "horizontal" ELSE "vertical"
         ELSE "none"

\* direction inferred by handleCellMouseEnterAutofill
autofillDirection(sourceRow, sourceCol, rowIndex, colIndex) ==
    IF rowIndex = sourceRow /\ colIndex # sourceCol THEN "horizontal"
    ELSE IF colIndex = sourceCol /\ rowIndex # sourceRow THEN "vertical"
    ELSE IF rowIndex # sourceRow /\ colIndex # sourceCol
         THEN LET rowDelta == IF rowIndex >= sourceRow THEN rowIndex - sourceRow
                              ELSE sourceRow - rowIndex
                  colDelta == IF colIndex >= sourceCol THEN colIndex - sourceCol
                              ELSE sourceCol - colIndex
              IN  IF colDelta >= rowDelta THEN "horizontal" ELSE "vertical"
         ELSE "none"

\* onMouseEnter with the slip of uniting the rectangle onto the current
\* selection instead of the pre-selection snapshot
onMouseEnterAccumulating(rowIndex, colIndex) ==
    /\ Step("onMouseEnter", rowIndex, colIndex, FALSE,
            (isDragging /\ dragStartCell # NoCell) \/ autofillDrag.active)
    /\ IF ~isDragging \/ dragStartCell = NoCell
       THEN UNCHANGED selectedCells
       ELSE selectedCells' =
                SeqUnion(selectedCells,
                         getRectangularSelection(dragStartCell.row, dragStartCell.col,
                                                 rowIndex, colIndex))
    /\ IF ~autofillDrag.active
       THEN UNCHANGED << autofillDrag, autofillPreviewCells >>
       ELSE /\ autofillDrag' =
                [ autofillDrag EXCEPT
                    !.direction  = autofillDirection(autofillDrag.sourceRow,
                                                     autofillDrag.sourceCol, rowIndex, colIndex),
                    !.currentRow = rowIndex,
                    !.currentCol = colIndex ]
            /\ autofillPreviewCells' =
                   LET cells == commitRun(tableRows, mergeSpans, autofillDrag')
                   IN  { CellId(cells[k].row, cells[k].col) : k \in 1..Len(cells) }
    /\ NoSave
    /\ UNCHANGED << gridVars, isSelectionMode, dragVars, dataLoaded, isUserInputRef >>

\* onMouseEnter with the slip of keeping the direction resolved earlier when
\* the hovered cell is the source
onMouseEnterKeepingDirection(rowIndex, colIndex) ==
    /\ Step("onMouseEnter", rowIndex, colIndex, FALSE,
            (isDragging /\ dragStartCell # NoCell) \/ autofillDrag.active)
    /\ IF ~isDragging \/ dragStartCell = NoCell
       THEN UNCHANGED selectedCells
       ELSE selectedCells' =
                SeqUnion(preSelectionRef,
                         getRectangularSelection(dragStartCell.row, dragStartCell.col,
                                                 rowIndex, colIndex))
    /\ IF ~autofillDrag.active
       THEN UNCHANGED << autofillDrag, autofillPreviewCells >>
       ELSE /\ autofillDrag' =
                [ autofillDrag EXCEPT
                    !.direction  =
                        IF rowIndex = autofillDrag.sourceRow /\ colIndex = autofillDrag.sourceCol
                        THEN @
                        ELSE autofillDirection(autofillDrag.sourceRow,
                                               autofillDrag.sourceCol, rowIndex, colIndex),
                    !.currentRow = rowIndex,
                    !.currentCol = colIndex ]
            /\ autofillPreviewCells' =
                   LET cells == commitRun(tableRows, mergeSpans, autofillDrag')
                   IN  { CellId(cells[k].row, cells[k].col) : k \in 1..Len(cells) }
    /\ NoSave
    /\ UNCHANGED << gridVars, isSelectionMode, dragVars, dataLoaded, isUserInputRef >>

\* onMouseEnter with the slip of computing the preview from the drag state
\* held before the hover instead of newState
onMouseEnterStalePreview(rowIndex, colIndex) ==
    /\ Step("onMouseEnter", rowIndex, colIndex, FALSE,
            (isDragging /\ dragStartCell # NoCell) \/ autofillDrag.active)
    /\ IF ~isDragging \/ dragStartCell = NoCell
       THEN UNCHANGED selectedCells
       ELSE selectedCells' =
                SeqUnion(preSelectionRef,
                         getRectangularSelection(dragStartCell.row, dragStartCell.col,
                                                 rowIndex, colIndex))
    /\ IF ~autofillDrag.active
       THEN UNCHANGED << autofillDrag, autofillPreviewCells >>
       ELSE /\ autofillDrag' =
                [ autofillDrag EXCEPT
                    !.direction  = autofillDirection(autofillDrag.sourceRow,
                                                     autofillDrag.sourceCol, rowIndex, colIndex),
                    !.currentRow = rowIndex,
                    !.currentCol = colIndex ]
            /\ autofillPreviewCells' =
                   LET cells == commitRun(tableRows, mergeSpans, autofillDrag)
                   IN  { CellId(cells[k].row, cells[k].col) : k \in 1..Len(cells) }
    /\ NoSave
    /\ UNCHANGED << gridVars, isSelectionMode, dragVars, dataLoaded, isUserInputRef >>

\* onMouseEnter of a <td>: handleCellMouseEnter, then handleCellMouseEnterAutofill
onMouseEnter(rowIndex, colIndex) ==
    /\ Step("onMouseEnter", rowIndex, colIndex, FALSE,
            (isDragging /\ dragStartCell # NoCell) \/ autofillDrag.active)
    /\ IF ~isDragging \/ dragStartCell = NoCell
       THEN UNCHANGED selectedCells
       ELSE selectedCells' =
                SeqUnion(preSelectionRef,
                         getRectangularSelection(dragStartCell.row, dragStartCell.col,
                                                 rowIndex, colIndex))
    /\ IF ~autofillDrag.active
       THEN UNCHANGED << autofillDrag, autofillPreviewCells >>
       ELSE /\ autofillDrag' =
                [ autofillDrag EXCEPT
                    !.direction  = autofillDirection(autofillDrag.sourceRow,
                                                     autofillDrag.sourceCol, rowIndex, colIndex),
                    !.currentRow = rowIndex,
                    !.currentCol = colIndex ]
            /\ autofillPreviewCells' =
                   LET cells == commitRun(tableRows, mergeSpans, autofillDrag')
                   IN  { CellId(cells[k].row, cells[k].col) : k \in 1..Len(cells) }
    /\ NoSave
    /\ UNCHANGED << gridVars, isSelectionMode, dragVars, dataLoaded, isUserInputRef >>

\* the selection controls are rendered: hasSelection && isSelectionAllowed
hasSelection == Len(selectedCells) > 0

selectionControls == hasSelection /\ props.isSelectionAllowed

selectAllCells ==
    /\ Step("selectAllCells", 0, 0, FALSE, props.isSelectionAllowed)
    /\ selectionControls
    /\ IF ~props.isSelectionAllowed
       THEN UNCHANGED selVars
       ELSE /\ selectedCells' =
                  LET flat == [ i \in 1..Len(tableRows) |->
                                  SelectSeq([ j \in 1..Len(tableRows[i].cells) |->
                                                tableRows[i].cells[j] ],
                                            LAMBDA cell : ~isCellHidden(cell, mergeSpans)) ]
                      ids(i) == [ j \in 1..Len(flat[i]) |-> idOf(flat[i][j]) ]
                      tail[i \in 1..(Len(tableRows) + 1)] ==
                          IF i > Len(tableRows) THEN << >>
                          ELSE SeqUnion(ids(i), tail[i + 1])
                  IN  SeqUnion(<< >>, tail[1])
            /\ isSelectionMode' = TRUE
    /\ NoSave
    /\ UNCHANGED << gridVars, dragVars, autofillDrag, autofillPreviewCells, dataLoaded, isUserInputRef >>

clearSelection ==
    /\ Step("clearSelection", 0, 0, FALSE, TRUE)
    /\ selectionControls
    /\ selectedCells' = << >>
    /\ isSelectionMode' = FALSE
    /\ NoSave
    /\ UNCHANGED << gridVars, dragVars, autofillDrag, autofillPreviewCells, dataLoaded, isUserInputRef >>

---------------------------------------------------------------------------
(* Merge and unmerge *)

\* bounding rectangle of the selected ids
selectionRect(sel) ==
    LET positions == { ParseCellId(id) : id \in SetOf(sel) }
    IN  [ minRow |-> Min({ p.row : p \in positions }),
          maxRow |-> Max({ p.row : p \in positions }),
          minCol |-> Min({ p.col : p \in positions }),
          maxCol |-> Max({ p.col : p \in positions }) ]

InRect(rect, r, c) ==
    /\ rect.minRow <= r /\ r <= rect.maxRow
    /\ rect.minCol <= c /\ c <= rect.maxCol

\* the isValidRect loop of mergeCells
isValidRect(sel, rows, spans) ==
    LET rect == selectionRect(sel)
    IN  \A r \in rect.minRow..rect.maxRow, c \in rect.minCol..rect.maxCol :
            LET cid == CellId(r, c)
                pr  == ParseCellId(cid).row
                pc  == ParseCellId(cid).col
            IN  \/ cid \in SetOf(sel)
                \/ /\ HasCell(rows, pr, pc)
                   /\ GetCell(rows, pr, pc).isMerged
                   /\ GetCell(rows, pr, pc).mergeId # << >>
                   /\ GetCell(rows, pr, pc).mergeId \in DOMAIN spans
                   /\ LET span == spans[GetCell(rows, pr, pc).mergeId]
                      IN  CellId(span.anchorRow, span.anchorCol) \in SetOf(sel)

\* first loop of the updater: every group that has a cell in the rectangle is
\* dissolved, on all of its cells
dissolveGroups(rows, rect) ==
    LET touched == { GetCell(rows, r, c).mergeId :
                       << r, c >> \in { q \in (rect.minRow..rect.maxRow) \X (rect.minCol..rect.maxCol) :
                                          /\ HasCell(rows, q[1], q[2])
                                          /\ GetCell(rows, q[1], q[2]).isMerged
                                          /\ GetCell(rows, q[1], q[2]).mergeId # << >> } }
    IN  MapCells(rows, LAMBDA c2 :
            IF c2.mergeId \in touched
            THEN [ c2 EXCEPT !.isMerged = FALSE, !.mergeId = << >> ] ELSE c2)

\* the state updater of mergeCells
mergeRows(prevRows, rect) ==
    LET newRows == dissolveGroups(prevRows, rect)
        mergeId == createMergeId(rect.minRow, rect.minCol, rect.maxRow, rect.maxCol)
    IN  IF ~HasCell(newRows, rect.minRow, rect.minCol) THEN prevRows
        ELSE LET topLeft == GetCell(newRows, rect.minRow, rect.minCol)
             IN  MapFound(newRows, LAMBDA r, c : InRect(rect, r, c),
                     LAMBDA cell : [ cell EXCEPT !.sequenceNumber = topLeft.sequenceNumber,
                                                 !.isBlocked = topLeft.isBlocked,
                                                 !.isBlank = topLeft.isBlank,
                                                 !.isMerged = TRUE,
                                                 !.mergeId = mergeId ])

\* mergeCells gets past its two early returns and its updater finds the
\* top-left cell
mergeApplies(sel, rows, spans) ==
    /\ Len(sel) >= 2
    /\ isValidRect(sel, rows, spans)
    /\ HasCell(rows, selectionRect(sel).minRow, selectionRect(sel).minCol)

mergeCells ==
    /\ Step("mergeCells", 0, 0, FALSE, mergeApplies(selectedCells, tableRows, mergeSpans))
    /\ selectionControls /\ ~(Len(selectedCells) < 2)
    /\ IF Len(selectedCells) < 2
       THEN UNCHANGED << gridVars, selVars, dragVars >> /\ NoSave
       ELSE IF ~isValidRect(selectedCells, tableRows, mergeSpans)
       THEN UNCHANGED << gridVars, selVars, dragVars >> /\ NoSave
       ELSE LET rect == selectionRect(selectedCells)
            IN  /\ IF ~HasCell(tableRows, rect.minRow, rect.minCol)
                   THEN UNCHANGED gridVars /\ NoSave
                   ELSE /\ SetTableRows(mergeRows(tableRows, rect))
                        /\ saveToBackend(rowCount, columnCount, rowCount, columnCount,
                                         isUserInputRef)
                /\ selectedCells' = << >>
                /\ isSelectionMode' = FALSE
                /\ resetDragState
    /\ UNCHANGED << autofillDrag, autofillPreviewCells, dataLoaded, isUserInputRef >>

\* unmergeRows with the slip of clearing the found cell alone instead of every
\* cell that shares its mergeId
unmergeRowsTargetOnly(prevRows, cellId) ==
    LET rowIndex == ParseCellId(cellId).row
        colIndex == ParseCellId(cellId).col
    IN  IF ~HasCell(prevRows, rowIndex, colIndex) THEN prevRows
        ELSE IF ~GetCell(prevRows, rowIndex, colIndex).isMerged THEN prevRows
        ELSE SetFound(prevRows, rowIndex, colIndex, LAMBDA cell :
                 [ cell EXCEPT !.isMerged = FALSE, !.mergeId = << >> ])

\* the state updater of unmergeCells for the first selected id
unmergeRows(prevRows, cellId) ==
    LET rowIndex == ParseCellId(cellId).row
        colIndex == ParseCellId(cellId).col
    IN  IF ~HasCell(prevRows, rowIndex, colIndex) THEN prevRows
        ELSE IF ~GetCell(prevRows, rowIndex, colIndex).isMerged THEN prevRows
        ELSE LET mergeId == GetCell(prevRows, rowIndex, colIndex).mergeId
             IN  MapCells(prevRows, LAMBDA cell :
                     IF cell.mergeId = mergeId
                     THEN [ cell EXCEPT !.isMerged = FALSE, !.mergeId = << >> ] ELSE cell)

\* the updater of unmergeCells returns prevRows (and does not save)
unmergeApplies(prevRows, cellId) ==
    /\ HasCell(prevRows, ParseCellId(cellId).row, ParseCellId(cellId).col)
    /\ GetCell(prevRows, ParseCellId(cellId).row, ParseCellId(cellId).col).isMerged

unmergeCells ==
    /\ Step("unmergeCells", 0, 0, FALSE,
            Len(selectedCells) # 0 /\ unmergeApplies(tableRows, selectedCells[1]))
    /\ selectionControls
    /\ IF Len(selectedCells) = 0
       THEN UNCHANGED << gridVars, dragVars >> /\ NoSave
       ELSE /\ IF unmergeApplies(tableRows, selectedCells[1])
               THEN /\ SetTableRows(unmergeRows(tableRows, selectedCells[1]))
                    /\ saveToBackend(rowCount, columnCount, rowCount, columnCount,
                                     isUserInputRef)
               ELSE UNCHANGED gridVars /\ NoSave
            /\ resetDragState
    /\ UNCHANGED << selVars, autofillDrag, autofillPreviewCells, dataLoaded, isUserInputRef >>

---------------------------------------------------------------------------
(* Blank and unblank *)

\* setBlankRows with the slip of a blank that also resets the sequenceNumber
\* of the cells it writes
setBlankRowsClearingValue(prevRows, sel, spans, blank) ==
    LET found == { GetCell(prevRows, ParseCellId(id).row, ParseCellId(id).col) :
                     id \in { x \in SetOf(sel) :
                                HasCell(prevRows, ParseCellId(x).row, ParseCellId(x).col) } }
        groups == { cell.mergeId : cell \in { x \in found : ~isCellHidden(x, spans)
                                                            /\ x.mergeId # << >> } }
        clear(cell) == [ cell EXCEPT !.isBlank = blank,
                                     !.sequenceNumber = IF blank THEN Dash ELSE @ ]
        written == MapFound(prevRows,
                       LAMBDA r, c : /\ CellId(r, c) \in SetOf(sel)
                                     /\ ~isCellHidden(GetCell(prevRows, r, c), spans),
                       LAMBDA cell : clear(cell))
    IN  MapCells(written, LAMBDA c : IF c.mergeId \in groups THEN clear(c) ELSE c)

\* the state updater of blankSelectedCells (blank = TRUE) and of
\* unblankSelectedCells (blank = FALSE)
setBlankRows(prevRows, sel, spans, blank) ==
    LET found == { GetCell(prevRows, ParseCellId(id).row, ParseCellId(id).col) :
                     id \in { x \in SetOf(sel) :
                                HasCell(prevRows, ParseCellId(x).row, ParseCellId(x).col) } }
        groups == { cell.mergeId : cell \in { x \in found : ~isCellHidden(x, spans)
                                                            /\ x.mergeId # << >> } }
        written == MapFound(prevRows,
                       LAMBDA r, c : /\ CellId(r, c) \in SetOf(sel)
                                     /\ ~isCellHidden(GetCell(prevRows, r, c), spans),
                       LAMBDA cell : [ cell EXCEPT !.isBlank = blank ])
    IN  MapCells(written, LAMBDA c :
            IF c.mergeId \in groups THEN [ c EXCEPT !.isBlank = blank ] ELSE c)

setBlankSelectedCells(name, blank) ==
    /\ Step(name, 0, 0, FALSE, Len(selectedCells) # 0)
    /\ selectionControls
    /\ IF Len(selectedCells) = 0
       THEN UNCHANGED << gridVars, selVars, dragVars >> /\ NoSave
       ELSE /\ SetTableRows(setBlankRows(tableRows, selectedCells, mergeSpans, blank))
            /\ saveToBackend(rowCount, columnCount, rowCount, columnCount, isUserInputRef)
            /\ selectedCells' = << >>
            /\ isSelectionMode' = FALSE
            /\ resetDragState
    /\ UNCHANGED << autofillDrag, autofillPreviewCells, dataLoaded, isUserInputRef >>

blankSelectedCells == setBlankSelectedCells("blankSelectedCells", TRUE)

unblankSelectedCells == setBlankSelectedCells("unblankSelectedCells", FALSE)

---------------------------------------------------------------------------
(* Autofill drag *)

\* handleAutofillHandleMouseDown with the slip of leaving out the isInteger
\* test
handleAutofillHandleMouseDownAnyValue(rowIndex, colIndex) ==
    /\ Step("handleAutofillHandleMouseDown", rowIndex, colIndex, FALSE,
            /\ HasCell(tableRows, rowIndex, colIndex)
            /\ isInteger(GetCell(tableRows, rowIndex, colIndex).sequenceNumber))
    /\ IF ~HasCell(tableRows, rowIndex, colIndex)
       THEN UNCHANGED << autofillDrag, autofillPreviewCells >>
       ELSE /\ autofillDrag' =
                [ active      |-> TRUE,
                  sourceRow   |-> rowIndex,
                  sourceCol   |-> colIndex,
                  sourceValue |-> parseInt(GetCell(tableRows, rowIndex, colIndex).sequenceNumber),
                  direction   |-> "none",
                  currentRow  |-> rowIndex,
                  currentCol  |-> colIndex ]
            /\ autofillPreviewCells' = { }
    /\ NoSave
    /\ UNCHANGED << gridVars, selVars, dragVars, dataLoaded, isUserInputRef >>

\* the autofill handle exists on cells that are rendered, not blank and
\* editable; the handler itself checks that the value is an integer
handleAutofillHandleMouseDown(rowIndex, colIndex) ==
    /\ Step("handleAutofillHandleMouseDown", rowIndex, colIndex, FALSE,
            /\ HasCell(tableRows, rowIndex, colIndex)
            /\ isInteger(GetCell(tableRows, rowIndex, colIndex).sequenceNumber))
    /\ IF ~HasCell(tableRows, rowIndex, colIndex)
       THEN UNCHANGED << autofillDrag, autofillPreviewCells >>
       ELSE IF ~isInteger(GetCell(tableRows, rowIndex, colIndex).sequenceNumber)
       THEN UNCHANGED << autofillDrag, autofillPreviewCells >>
       ELSE /\ autofillDrag' =
                [ active      |-> TRUE,
                  sourceRow   |-> rowIndex,
                  sourceCol   |-> colIndex,
                  sourceValue |-> parseInt(GetCell(tableRows, rowIndex, colIndex).sequenceNumber),
                  direction   |-> "none",
                  currentRow  |-> rowIndex,
                  currentCol  |-> colIndex ]
            /\ autofillPreviewCells' = { }
    /\ NoSave
    /\ UNCHANGED << gridVars, selVars, dragVars, dataLoaded, isUserInputRef >>

\* applyFill with the slip of writing the found cell alone, not the cells of
\* its merge group
RECURSIVE applyFillFoundOnly(_, _)
applyFillFoundOnly(rows, fillCells) ==
    IF fillCells = << >> THEN rows
    ELSE LET f == Head(fillCells)
         IN  IF ~HasCell(rows, f.row, f.col) THEN applyFillFoundOnly(rows, Tail(fillCells))
             ELSE applyFillFoundOnly(
                      SetFound(rows, f.row, f.col,
                          LAMBDA x : [ x EXCEPT !.sequenceNumber = IntToString(f.value) ]),
                      Tail(fillCells))

\* fillCells.forEach of the commit: each value is written on the cell and on
\* every cell of its merge group, in the order of the run
RECURSIVE applyFill(_, _)
applyFill(rows, fillCells) ==
    IF fillCells = << >> THEN rows
    ELSE LET f == Head(fillCells)
         IN  IF ~HasCell(rows, f.row, f.col) THEN applyFill(rows, Tail(fillCells))
             ELSE LET cell == GetCell(rows, f.row, f.col)
                      text == IntToString(f.value)
                      written == SetFound(rows, f.row, f.col,
                                     LAMBDA x : [ x EXCEPT !.sequenceNumber = text ])
                      spread == IF cell.isMerged /\ cell.mergeId # << >>
                                THEN MapCells(written, LAMBDA c :
                                         IF c.mergeId = cell.mergeId
                                         THEN [ c EXCEPT !.sequenceNumber = text ] ELSE c)
                                ELSE written
                  IN  applyFill(spread, Tail(fillCells))

\* mouseup with the slip of committing without the test fillCells.length > 0
mouseupWithoutLengthTest ==
    /\ Step("mouseup", autofillDrag.currentRow, autofillDrag.currentCol, FALSE,
            isDragging \/ autofillDrag.active)
    /\ IF isDragging THEN resetDragState ELSE UNCHANGED dragVars
    /\ IF ~autofillDrag.active
       THEN UNCHANGED << gridVars, autofillDrag, autofillPreviewCells >> /\ NoSave
       ELSE /\ SetTableRows(applyFill(tableRows,
                                      commitRun(tableRows, mergeSpans, autofillDrag)))
            /\ saveToBackend(rowCount, columnCount, rowCount, columnCount, isUserInputRef)
            /\ autofillDrag' = NoAutofillDrag
            /\ autofillPreviewCells' = { }
    /\ UNCHANGED << selVars, dataLoaded, isUserInputRef >>

\* document mouseup: the listener that ends a selection drag and
\* handleAutofillMouseUp
mouseup ==
    /\ Step("mouseup", autofillDrag.currentRow, autofillDrag.currentCol, FALSE,
            isDragging \/ autofillDrag.active)
    /\ IF isDragging THEN resetDragState ELSE UNCHANGED dragVars
    /\ IF ~autofillDrag.active
       THEN UNCHANGED << gridVars, autofillDrag, autofillPreviewCells >> /\ NoSave
       ELSE /\ IF Len(commitRun(tableRows, mergeSpans, autofillDrag)) > 0
               THEN /\ SetTableRows(applyFill(tableRows,
                                              commitRun(tableRows, mergeSpans, autofillDrag)))
                    /\ saveToBackend(rowCount, columnCount, rowCount, columnCount,
                                     isUserInputRef)
               ELSE UNCHANGED gridVars /\ NoSave
            /\ autofillDrag' = NoAutofillDrag
            /\ autofillPreviewCells' = { }
    /\ UNCHANGED << selVars, dataLoaded, isUserInputRef >>

---------------------------------------------------------------------------
(* External collaborators: incoming snapshot, count attributes, timers *)

Field(rec, name, default) == IF name \in DOMAIN rec THEN rec[name] ELSE default

\* validatedCell with the slip of keeping the indices of the incoming cell
\* when it has them
validatedCellKeepingIndices(cell, rowIndex, colIndex) ==
    [ sequenceNumber |-> IF Field(cell, "sequenceNumber", << >>) = << >> THEN Dash
                         ELSE cell.sequenceNumber,
      isBlocked      |-> Field(cell, "isBlocked", FALSE),
      isMerged       |-> Field(cell, "isMerged", FALSE),
      mergeId        |-> Field(cell, "mergeId", << >>),
      isBlank        |-> Field(cell, "isBlank", FALSE),
      rowIndex       |-> Field(cell, "rowIndex", rowIndex),
      columnIndex    |-> Field(cell, "columnIndex", colIndex) ]

\* validatedCell of the load effect
validatedCell(cell, rowIndex, colIndex) ==
    [ sequenceNumber |-> IF Field(cell, "sequenceNumber", << >>) = << >> THEN Dash
                         ELSE cell.sequenceNumber,
      isBlocked      |-> Field(cell, "isBlocked", FALSE),
      isMerged       |-> Field(cell, "isMerged", FALSE),
      mergeId        |-> Field(cell, "mergeId", << >>),
      isBlank        |-> Field(cell, "isBlank", FALSE),
      rowIndex       |-> rowIndex,
      columnIndex    |-> colIndex ]

validatedRows(tableData) ==
    [ i \in 1..Len(tableData.tableRows) |->
        [ rowIndex |-> i,
          cells |-> [ j \in 1..Len(tableData.tableRows[i].cells) |->
                        validatedCell(tableData.tableRows[i].cells[j], i, j) ] ] ]

\* a 2 x 2 snapshot whose first row is one merge group
SnapMerged ==
    [ rows |-> 2, columns |-> 2,
      tableRows |-> <<
        [ rowIndex |-> 1, cells |-> <<
            [ sequenceNumber |-> << "5" >>, isBlocked |-> FALSE, isMerged |-> TRUE,
              mergeId |-> << "1", "1", "1", "2" >>, isBlank |-> FALSE,
              rowIndex |-> 1, columnIndex |-> 1 ],
            [ sequenceNumber |-> << "5" >>, isBlocked |-> FALSE, isMerged |-> TRUE,
              mergeId |-> << "1", "1", "1", "2" >>, isBlank |-> FALSE,
              rowIndex |-> 1, columnIndex |-> 2 ] >> ],
        [ rowIndex |-> 2, cells |-> <<
            [ sequenceNumber |-> << "-" >>, isBlocked |-> TRUE, isMerged |-> FALSE,
              mergeId |-> << >>, isBlank |-> FALSE, rowIndex |-> 2, columnIndex |-> 1 ],
            [ sequenceNumber |-> << "-" >>, isBlocked |-> FALSE, isMerged |-> FALSE,
              mergeId |-> << >>, isBlank |-> TRUE, rowIndex |-> 2, columnIndex |-> 2 ] >> ] >> ]

\* a snapshot whose first cell says isMerged without a mergeId, and whose
\* second cell has no field at all
SnapNoMergeId ==
    [ rows |-> 1, columns |-> 2,
      tableRows |-> <<
        [ rowIndex |-> 1, cells |-> << [ isMerged |-> TRUE ], [ columnIndex |-> 7 ] >> ] >> ]

\* a snapshot whose rows count (1) is smaller than its number of rows (2)
SnapLong ==
    [ rows |-> 1, columns |-> 1,
      tableRows |-> <<
        [ rowIndex |-> 1, cells |-> << [ sequenceNumber |-> << "5" >> ] >> ],
        [ rowIndex |-> 2, cells |-> << [ sequenceNumber |-> << >> ] >> ] >> ]

\* a snapshot with rows: 0
SnapZero == [ rows |-> 0, columns |-> 2, tableRows |-> << >> ]

\* a snapshot with columns: 0
SnapZeroColumns ==
    [ rows |-> 2, columns |-> 0,
      tableRows |-> << [ rowIndex |-> 1, cells |-> << >> ],
                       [ rowIndex |-> 2, cells |-> << >> ] >> ]

\* a snapshot without tableRows
SnapNoTableRows == [ rows |-> 2, columns |-> 2 ]

\* a snapshot with tableRows: [] under rows: 2, columns: 2
SnapNoRows == [ rows |-> 2, columns |-> 2, tableRows |-> << >> ]

\* a 3-row snapshot for autofill drags:
\*     5    -   (blank)   -
\*     7   [ group 2223 ]  9
\*     2    -    -4
SnapFill ==
    [ rows |-> 3, columns |-> 4,
      tableRows |-> <<
        [ rowIndex |-> 1, cells |-> <<
            [ sequenceNumber |-> << "5" >> ],
            [ sequenceNumber |-> << "-" >> ],
            [ sequenceNumber |-> << "-" >>, isBlank |-> TRUE ],
            [ sequenceNumber |-> << "-" >> ] >> ],
        [ rowIndex |-> 2, cells |-> <<
            [ sequenceNumber |-> << "7" >> ],
            [ sequenceNumber |-> << "-" >>, isMerged |-> TRUE,
              mergeId |-> << "2", "2", "2", "3" >> ],
            [ sequenceNumber |-> << "-" >>, isMerged |-> TRUE,
              mergeId |-> << "2", "2", "2", "3" >> ],
            [ sequenceNumber |-> << "9" >> ] >> ],
        [ rowIndex |-> 3, cells |-> <<
            [ sequenceNumber |-> << "2" >> ],
            [ sequenceNumber |-> << "-" >> ],
            [ sequenceNumber |-> << "-", "4" >> ] >> ] >> ]

\* a snapshot of 101 rows of one cell
SnapTall ==
    [ rows |-> MaxDimension + 1, columns |-> 1,
      tableRows |-> [ i \in 1..(MaxDimension + 1) |->
                        [ rowIndex |-> i, cells |-> << [ sequenceNumber |-> Dash ] >> ] ] ]

Snapshots ==
    IF scn \in { "fill", "press" } THEN { SnapFill }
    ELSE IF scn = "limit" THEN { SnapTall }
    ELSE IF scn = "value" THEN { SnapMerged }
    ELSE IF scn = "select" THEN { SnapMerged }
    ELSE IF scn = "reject"
         THEN { SnapMerged, SnapZero, SnapZeroColumns, SnapNoTableRows, SnapNoRows }
    ELSE IF scn = "echo" THEN { SnapMerged, SnapLong }
    ELSE { SnapMerged, SnapNoMergeId, SnapLong, SnapZero }

\* tableData.tableRows && tableData.rows > 0 && tableData.columns > 0
loadAccepts(tableData) ==
    "tableRows" \in DOMAIN tableData /\ tableData.rows > 0 /\ tableData.columns > 0

\* loadApplies with the slip of leaving out the comparison with
\* lastSavedDataRef
loadAppliesWithoutEchoTest(incoming, saving) ==
    /\ ~saving
    /\ incoming # NoData
    /\ loadAccepts(incoming)

\* the load effect runs with isSaving = saving and finds incoming in
\* props.useAttributeData.value: it returns early, or replaces the grid
loadApplies(incoming, saving) ==
    /\ ~saving
    /\ ~(incoming = lastSavedDataRef /\ lastSavedDataRef # NoData)
    /\ incoming # NoData
    /\ loadAccepts(incoming)

loadEffect(incoming, saving) ==
    IF loadApplies(incoming, saving)
    THEN /\ SetTableRows(validatedRows(incoming))
         /\ selectedCells' = << >>
         /\ isSelectionMode' = FALSE
         /\ dataLoaded' = TRUE
         /\ saveToBackend(incoming.rows, incoming.columns,
                          incoming.rows, incoming.columns, isUserInputRef)
    ELSE /\ UNCHANGED << gridVars, selVars, dataLoaded >>
         /\ isSaving' = saving
         /\ useAttributeData' = incoming
         /\ UNCHANGED << rowCount, columnCount, rowCountAttribute, columnCountAttribute,
                         ignoreAttributeUpdateRef, lastSavedDataRef >>

\* the external store puts a snapshot into props.useAttributeData; the load
\* effect runs because the value changed
load(tableData) ==
    /\ Step("load", 0, 0, FALSE, loadApplies(tableData, isSaving))
    /\ tableData # useAttributeData
    /\ loadEffect(tableData, isSaving)
    /\ UNCHANGED << dragVars, autofillDrag, autofillPreviewCells, isUserInputRef >>

\* the external store changes the row count attribute
rowCountAttributeChange(v) ==
    /\ Step("rowCountAttribute", v, 0, FALSE, TRUE)
    /\ v # rowCountAttribute
    /\ CountEffects(rowCount, columnCount, v, columnCountAttribute,
                    ignoreAttributeUpdateRef, isUserInputRef)
    /\ UNCHANGED << gridVars, selVars, dragVars, autofillDrag, autofillPreviewCells, isSaving, dataLoaded,
                    isUserInputRef, useAttributeData, lastSavedDataRef >>

\* the external store changes the column count attribute
columnCountAttributeChange(v) ==
    /\ Step("columnCountAttribute", 0, v, FALSE, TRUE)
    /\ v # columnCountAttribute
    /\ CountEffects(rowCount, columnCount, rowCountAttribute, v,
                    ignoreAttributeUpdateRef, isUserInputRef)
    /\ UNCHANGED << gridVars, selVars, dragVars, autofillDrag, autofillPreviewCells, isSaving, dataLoaded,
                    isUserInputRef, useAttributeData, lastSavedDataRef >>

\* setTimeout(() => setIsSaving(false), 100); the load effect runs again
\* because isSaving changed
isSavingTimeout ==
    /\ Step("isSavingTimeout", 0, 0, FALSE, loadApplies(useAttributeData, FALSE))
    /\ isSaving
    /\ loadEffect(useAttributeData, FALSE)
    /\ UNCHANGED << dragVars, autofillDrag, autofillPreviewCells, isUserInputRef >>

\* setTimeout(() => { isUserInputRef.current = false; }, 100)
isUserInputTimeout ==
    /\ Step("isUserInputTimeout", 0, 0, FALSE, TRUE)
    /\ isUserInputRef
    /\ isUserInputRef' = FALSE
    /\ UNCHANGED << gridVars, selVars, dragVars, autofillDrag, autofillPreviewCells, dataLoaded >>
    /\ NoSave

---------------------------------------------------------------------------
(* Next-state relation *)

\* cells whose text input is rendered
EditableCells ==
    { << tableRows[p[1]].cells[p[2]].rowIndex, tableRows[p[1]].cells[p[2]].columnIndex >> :
        p \in { q \in CellPositions(tableRows) :
                  /\ props.enableCellEditing
                  /\ ~isCellHidden(tableRows[q[1]].cells[q[2]], mergeSpans)
                  /\ ~tableRows[q[1]].cells[q[2]].isBlank } }

\* cells whose autofill handle is rendered (showAutofillHandle)
AutofillHandleCells ==
    { p \in EditableCells :
        /\ HasCell(tableRows, p[1], p[2])
        /\ \E q \in CellPositions(tableRows) :
               /\ tableRows[q[1]].cells[q[2]].rowIndex = p[1]
               /\ tableRows[q[1]].cells[q[2]].columnIndex = p[2]
               /\ ~isCellHidden(tableRows[q[1]].cells[q[2]], mergeSpans)
               /\ ~tableRows[q[1]].cells[q[2]].isBlank
               /\ isInteger(tableRows[q[1]].cells[q[2]].sequenceNumber) }

Next ==
    \/ InitialCreate
    \/ applyDimensions
    \/ addRow
    \/ addColumn
    \/ \E p \in Targets("handleCellValueChange", EditableCells), v \in InputValues :
          handleCellValueChange(p[1], p[2], v)
    \/ \E p \in Targets("onClick", RenderedCells), m \in ClickMods : onClick(p[1], p[2], m)
    \/ \E p \in Targets("handleCellMouseDown", RenderedCells), m \in PressMods :
          handleCellMouseDown(p[1], p[2], m)
    \/ \E p \in Targets("onMouseEnter", RenderedCells) : onMouseEnter(p[1], p[2])
    \/ mouseup
    \/ selectAllCells
    \/ clearSelection
    \/ mergeCells
    \/ unmergeCells
    \/ blankSelectedCells
    \/ unblankSelectedCells
    \/ \E p \in Targets("handleAutofillHandleMouseDown", AutofillHandleCells) :
          handleAutofillHandleMouseDown(p[1], p[2])
    \/ \E snap \in Snapshots : load(snap)
    \/ \E v \in ExternalCounts : rowCountAttributeChange(v)
    \/ \E v \in ExternalCounts : columnCountAttributeChange(v)
    \/ isSavingTimeout
    \/ isUserInputTimeout

Spec == Init /\ [][Next]_vars

\* the runs of the "fill" alphabet alone
InitFill == Init /\ scn = "fill"

NextFill ==
    \/ \E p \in Targets("onMouseEnter", RenderedCells) : onMouseEnter(p[1], p[2])
    \/ mouseup
    \/ \E p \in Targets("handleAutofillHandleMouseDown", AutofillHandleCells) :
          handleAutofillHandleMouseDown(p[1], p[2])
    \/ \E snap \in Snapshots : load(snap)

SpecFill == InitFill /\ [][NextFill]_vars

\* the statistics attributes once the statistics effect has run on the
\* grid and the merge spans of the state
cellStatistics == updateCellStatistics(tableRows, mergeSpans)

\* the runs of the "echo" alphabet alone
InitEcho == Init /\ scn = "echo"

NextEcho ==
    \/ InitialCreate
    \/ addRow
    \/ \E p \in Targets("onClick", RenderedCells), m \in ClickMods : onClick(p[1], p[2], m)
    \/ \E snap \in Snapshots : load(snap)
    \/ isSavingTimeout

SpecEcho == InitEcho /\ [][NextEcho]_vars

\* the runs of the "limit" alphabet alone
InitLimit == Init /\ scn = "limit"

NextLimit ==
    \/ InitialCreate
    \/ applyDimensions
    \/ addRow
    \/ addColumn
    \/ \E p \in Targets("onClick", RenderedCells), m \in ClickMods : onClick(p[1], p[2], m)
    \/ \E snap \in Snapshots : load(snap)
    \/ \E v \in ExternalCounts : rowCountAttributeChange(v)
    \/ \E v \in ExternalCounts : columnCountAttributeChange(v)
    \/ isUserInputTimeout

SpecLimit == InitLimit /\ [][NextLimit]_vars

\* the runs of the "value" alphabet alone
InitValue == InitIn({ "value" })

NextValue ==
    \/ \E p \in Targets("handleCellValueChange", EditableCells), v \in InputValues :
          handleCellValueChange(p[1], p[2], v)
    \/ \E p \in Targets("handleCheckboxChange", RenderedCells) :
          handleCheckboxChange(p[1], p[2])
    \/ \E snap \in Snapshots : load(snap)

SpecValue == InitValue /\ [][NextValue]_vars

\* the runs of the "reject" alphabet alone
InitReject == Init /\ scn = "reject"

NextReject ==
    \/ InitialCreate
    \/ addRow
    \/ \E p \in Targets("onClick", RenderedCells), m \in ClickMods : onClick(p[1], p[2], m)
    \/ \E snap \in Snapshots : load(snap)

SpecReject == InitReject /\ [][NextReject]_vars

\* the runs of the "select" alphabet alone
InitSelect == InitIn({ "select" })

NextSelect ==
    \/ \E p \in Targets("onClick", RenderedCells), m \in ClickMods : onClick(p[1], p[2], m)
    \/ \E p \in Targets("handleCellMouseDown", RenderedCells), m \in PressMods :
          handleCellMouseDown(p[1], p[2], m)
    \/ \E p \in Targets("onMouseEnter", RenderedCells) : onMouseEnter(p[1], p[2])
    \/ mouseup
    \/ \E p \in Targets("handleAutofillHandleMouseDown", AutofillHandleCells) :
          handleAutofillHandleMouseDown(p[1], p[2])
    \/ \E snap \in Snapshots : load(snap)

SpecSelect == InitSelect /\ [][NextSelect]_vars

\* the runs of the "press" alphabet alone
InitPress == InitIn({ "press" })

NextPress ==
    \/ \E p \in Targets("onMouseEnter", RenderedCells) : onMouseEnter(p[1], p[2])
    \/ mouseup
    \/ \E p \in Targets("handleAutofillHandleMouseDown", AutofillHandleCells) :
          handleAutofillHandleMouseDown(p[1], p[2])
    \/ \E snap \in Snapshots : load(snap)

SpecPress == InitPress /\ [][NextPress]_vars

---------------------------------------------------------------------------
(* Properties *)

\* the cell records of a grid
CellsOf(rows) == { rows[p[1]].cells[p[2]] : p \in CellPositions(rows) }

\* the cell records of a grid that lie in a rectangle of indices
CellsInRect(rows, rect) ==
    { x \in CellsOf(rows) : InRect(rect, x.rowIndex, x.columnIndex) }

\* the operations of a run that never loads a snapshot and never sees an
\* external count change
EditingOperations ==
    { "initialCreate", "handleCellValueChange", "onClick", "handleCellMouseDown",
      "onMouseEnter", "mouseup", "selectAllCells", "clearSelection", "mergeCells",
      "unmergeCells", "blankSelectedCells", "unblankSelectedCells",
      "handleAutofillHandleMouseDown", "addRow", "addColumn",
      "isSavingTimeout", "isUserInputTimeout" }

\* C1: in every state reached by editing operations alone (set value, toggle
\* block, merge, unmerge, blank, unblank, autofill commit, add row, add column),
\* all cells sharing a non-empty mergeId have the same sequenceNumber, the same
\* isBlocked and the same isBlank.
C1_PropagationInvariant ==
    Alphabet \subseteq EditingOperations =>
        \A a, b \in CellsOf(tableRows) :
            (a.mergeId # << >> /\ a.mergeId = b.mergeId) =>
                /\ a.sequenceNumber = b.sequenceNumber
                /\ a.isBlocked = b.isBlocked
                /\ a.isBlank = b.isBlank

\* the selection has at least 2 cells and every id of its bounding rectangle is
\* selected or is a non-anchor merged cell whose group's anchor is selected
ValidMergeSelection(sel, rows, spans) ==
    /\ Len(sel) >= 2
    /\ LET rect == selectionRect(sel)
       IN  \A r \in rect.minRow..rect.maxRow, c \in rect.minCol..rect.maxCol :
               \/ CellId(r, c) \in SetOf(sel)
               \/ \E x \in CellsOf(rows) :
                      /\ x.rowIndex = r /\ x.columnIndex = c
                      /\ x.isMerged /\ x.mergeId \in DOMAIN spans
                      /\ << spans[x.mergeId].anchorRow, spans[x.mergeId].anchorCol >> # << r, c >>
                      /\ CellId(spans[x.mergeId].anchorRow, spans[x.mergeId].anchorCol)
                            \in SetOf(sel)

\* C2: mergeCells performs a merge iff the selection is a valid merge selection
\* (the cells of the rectangle end up in one group); in every other case the
\* grid, the merge spans and the selection are unchanged.
C2_MergeIffValid ==
    [][lastOp'.name = "mergeCells" =>
        IF ValidMergeSelection(selectedCells, tableRows, mergeSpans)
        THEN LET inside == CellsInRect(tableRows', selectionRect(selectedCells))
             IN  /\ inside # { }
                 /\ \A x, y \in inside :
                        x.isMerged /\ x.mergeId # << >> /\ x.mergeId = y.mergeId
        ELSE UNCHANGED << tableRows, mergeSpans, selectedCells >>]_vars

\* C3: after a successful merge every cell of the bounding rectangle is merged
\* with one common mergeId, carries the sequenceNumber, isBlocked and isBlank the
\* top-left cell had before, and the span index holds the rectangle for that
\* mergeId.
C3_MergeResult ==
    [][(lastOp'.name = "mergeCells" /\ lastOp'.applied) =>
        LET rect    == selectionRect(selectedCells)
            topLeft == GetCell(tableRows, rect.minRow, rect.minCol)
            inside  == CellsInRect(tableRows', rect)
        IN  /\ \A x, y \in inside :
                   /\ x.isMerged /\ x.mergeId # << >> /\ x.mergeId = y.mergeId
                   /\ x.sequenceNumber = topLeft.sequenceNumber
                   /\ x.isBlocked = topLeft.isBlocked
                   /\ x.isBlank = topLeft.isBlank
            /\ \A x \in inside :
                   /\ x.mergeId \in DOMAIN mergeSpans'
                   /\ mergeSpans'[x.mergeId] =
                          [ rowSpan   |-> rect.maxRow - rect.minRow + 1,
                            colSpan   |-> rect.maxCol - rect.minCol + 1,
                            anchorRow |-> rect.minRow,
                            anchorCol |-> rect.minCol ]]_vars

\* C4: a successful merge dissolves every group that has a cell inside the new
\* rectangle (its cells outside the rectangle end up with isMerged = false and
\* mergeId = ""), and every group with no cell inside the rectangle keeps its
\* mergeId and its span.
C4_MergeDissolves ==
    [][(lastOp'.name = "mergeCells" /\ lastOp'.applied) =>
        LET rect    == selectionRect(selectedCells)
            touched == { x.mergeId : x \in CellsInRect(tableRows, rect) } \ { << >> }
        IN  /\ \A p \in CellPositions(tableRows) :
                   LET x  == tableRows[p[1]].cells[p[2]]
                       x2 == tableRows'[p[1]].cells[p[2]]
                   IN  /\ (~InRect(rect, x.rowIndex, x.columnIndex) /\ x.mergeId \in touched)
                            => (~x2.isMerged /\ x2.mergeId = << >>)
                       /\ (x.mergeId # << >> /\ x.mergeId \notin touched)
                            => (x2.isMerged = x.isMerged /\ x2.mergeId = x.mergeId)
            /\ \A m \in DOMAIN mergeSpans \ touched :
                   m \in DOMAIN mergeSpans' /\ mergeSpans'[m] = mergeSpans[m]]_vars

\* C5: no selection operation (press, modifier press, drag over a cell, click,
\* modifier click, select all) lets a hidden cell enter the selection.
C5_NoHiddenCellSelected ==
    [][lastOp'.name \in { "handleCellMouseDown", "onMouseEnter", "onClick", "selectAllCells" } =>
        \A x \in CellsOf(tableRows') :
            (isCellHidden(x, mergeSpans') /\ idOf(x) \in SetOf(selectedCells'))
                => idOf(x) \in SetOf(selectedCells)]_vars

\* C6: in every reachable state, loaded snapshots included, a cell has
\* isMerged = false iff its mergeId is the empty string.
C6_MergedIffMergeId ==
    \A x \in CellsOf(tableRows) : (x.isMerged = FALSE) <=> (x.mergeId = << >>)

\* C7: once a grid exists it has exactly rowCount rows and every row has exactly
\* columnCount cells, whatever the interleaving of create, addRow, addColumn,
\* snapshot load and external count changes.
C7_GridShape ==
    dataLoaded =>
        /\ Len(tableRows) = rowCount
        /\ \A i \in 1..Len(tableRows) : Len(tableRows[i].cells) = columnCount

\* C8: once a grid exists its rows carry rowIndex 1..n in order and the cells of
\* every row carry columnIndex 1..m in order, also after addRow / addColumn that
\* follows an external count change.
C8_ContiguousIndices ==
    dataLoaded =>
        \A i \in 1..Len(tableRows) :
            /\ tableRows[i].rowIndex = i
            /\ \A j \in 1..Len(tableRows[i].cells) :
                   /\ tableRows[i].cells[j].columnIndex = j
                   /\ tableRows[i].cells[j].rowIndex = i

\* C9: unmergeCells looks at the first selected cell only: if it is merged,
\* exactly the cells sharing its mergeId get isMerged = false and mergeId = ""
\* and nothing else changes in any cell or in any other group's span; if it is
\* not merged, or nothing is selected, the grid is unchanged.
C9_UnmergeFirstSelected ==
    [][lastOp'.name = "unmergeCells" =>
        IF /\ selectedCells # << >>
           /\ HasCell(tableRows, ParseCellId(selectedCells[1]).row,
                                 ParseCellId(selectedCells[1]).col)
           /\ GetCell(tableRows, ParseCellId(selectedCells[1]).row,
                                 ParseCellId(selectedCells[1]).col).isMerged
        THEN LET first == GetCell(tableRows, ParseCellId(selectedCells[1]).row,
                                             ParseCellId(selectedCells[1]).col)
             IN  /\ Len(tableRows') = Len(tableRows)
                 /\ \A i \in 1..Len(tableRows) :
                        /\ tableRows'[i].rowIndex = tableRows[i].rowIndex
                        /\ Len(tableRows'[i].cells) = Len(tableRows[i].cells)
                 /\ \A p \in CellPositions(tableRows) :
                        LET x == tableRows[p[1]].cells[p[2]]
                        IN  tableRows'[p[1]].cells[p[2]] =
                                IF x.mergeId = first.mergeId
                                THEN [ x EXCEPT !.isMerged = FALSE, !.mergeId = << >> ]
                                ELSE x
                 /\ first.mergeId \notin DOMAIN mergeSpans'
                 /\ \A m \in DOMAIN mergeSpans \ { first.mergeId } :
                        m \in DOMAIN mergeSpans' /\ mergeSpans'[m] = mergeSpans[m]
        ELSE UNCHANGED << tableRows, mergeSpans >>]_vars

\* an unmerge has just dissolved the loaded group of row 1: its two cells are
\* independent again and the span index is empty
C9_Witness ==
    /\ lastOp.name = "unmergeCells" /\ lastOp.applied
    /\ Cardinality(CellPositions(tableRows)) = 4
    /\ \A x \in CellsOf(tableRows) : ~x.isMerged /\ x.mergeId = << >>
    /\ \E x \in CellsOf(tableRows) : x.sequenceNumber = << "5" >>
    /\ DOMAIN mergeSpans = { }

\* C10: blank (unblank) sets isBlank to true (false) on exactly the selected
\* visible cells and the cells sharing a mergeId with one of them, every other
\* cell keeps its isBlank, and afterwards the selection is empty and selection
\* mode is off.
C10_BlankExactly ==
    [][lastOp'.name \in { "blankSelectedCells", "unblankSelectedCells" } =>
        LET blank  == (lastOp'.name = "blankSelectedCells")
            direct == { x \in CellsOf(tableRows) :
                          /\ idOf(x) \in SetOf(selectedCells)
                          /\ ~isCellHidden(x, mergeSpans) }
            groups == { x.mergeId : x \in direct } \ { << >> }
        IN  /\ Len(tableRows') = Len(tableRows)
            /\ \A p \in CellPositions(tableRows) :
                   LET x == tableRows[p[1]].cells[p[2]]
                   IN  tableRows'[p[1]].cells[p[2]].isBlank =
                           IF x \in direct \/ x.mergeId \in groups THEN blank ELSE x.isBlank
            /\ selectedCells' = << >>
            /\ isSelectionMode' = FALSE]_vars

---------------------------------------------------------------------------
(* Autofill: the run of the drag that a release ends, read off the grid      *)
(* before the release                                                        *)

\* the drag has an axis and its source holds an integer
FillSourceOk ==
    /\ autofillDrag.active
    /\ autofillDrag.direction # "none"
    /\ HasCell(tableRows, autofillDrag.sourceRow, autofillDrag.sourceCol)
    /\ isInteger(GetCell(tableRows, autofillDrag.sourceRow,
                         autofillDrag.sourceCol).sequenceNumber)

FillSourceValue ==
    parseInt(GetCell(tableRows, autofillDrag.sourceRow, autofillDrag.sourceCol).sequenceNumber)

\* number of cells between the source (excluded) and the target (included)
FillDistance ==
    LET d == IF autofillDrag.direction = "horizontal"
             THEN autofillDrag.currentCol - autofillDrag.sourceCol
             ELSE autofillDrag.currentRow - autofillDrag.sourceRow
    IN  IF d < 0 THEN 0 - d ELSE d

\* the position k cells away from the source toward the target
FillPos(k) ==
    LET toward(from, to) == IF to > from THEN from + k ELSE from - k
    IN  IF autofillDrag.direction = "horizontal"
        THEN << autofillDrag.sourceRow,
                toward(autofillDrag.sourceCol, autofillDrag.currentCol) >>
        ELSE << toward(autofillDrag.sourceRow, autofillDrag.currentRow),
                autofillDrag.sourceCol >>

\* the position holds a cell that is neither blank nor hidden
FillableAt(pos) ==
    /\ HasCell(tableRows, pos[1], pos[2])
    /\ ~GetCell(tableRows, pos[1], pos[2]).isBlank
    /\ ~isCellHidden(GetCell(tableRows, pos[1], pos[2]), mergeSpans)

\* length of the maximal contiguous run of fillable cells next to the source
FillRunLength ==
    IF ~FillSourceOk THEN 0
    ELSE Max({ k \in 0..FillDistance : \A j \in 1..k : FillableAt(FillPos(j)) })

SeqNumAt(rows, pos) == GetCell(rows, pos[1], pos[2]).sequenceNumber

\* C11: when the release of an autofill drag commits a run from a source with
\* integer value v, the k-th cell of the run, counted outward from the
\* source, holds v + k afterwards, whichever way the drag went.
C11_RunValues ==
    [][ (lastOp'.name = "mouseup" /\ FillSourceOk)
        => \A k \in 1..FillRunLength :
              /\ isInteger(SeqNumAt(tableRows', FillPos(k)))
              /\ parseInt(SeqNumAt(tableRows', FillPos(k))) = FillSourceValue + k ]_vars

\* a leftward drag from (3,3) = -4 released on (3,1) has filled -3 and -2
C11_Witness ==
    /\ scn = "fill"
    /\ lastOp.name = "mouseup" /\ lastOp.row = 3 /\ lastOp.col = 1
    /\ HasCell(tableRows, 3, 3) /\ HasCell(tableRows, 3, 1)
    /\ SeqNumAt(tableRows, << 3, 3 >>) = << "-", "4" >>
    /\ SeqNumAt(tableRows, << 3, 2 >>) = << "-", "3" >>
    /\ SeqNumAt(tableRows, << 3, 1 >>) = << "-", "2" >>

\* ids of the cells of the run
FillRunIds == { CellId(FillPos(k)[1], FillPos(k)[2]) : k \in 1..FillRunLength }

\* the cell shares a merge group with a cell of the run
InGroupOfRun(cell) ==
    /\ cell.mergeId # << >>
    /\ \E k \in 1..FillRunLength :
          /\ GetCell(tableRows, FillPos(k)[1], FillPos(k)[2]).isMerged
          /\ GetCell(tableRows, FillPos(k)[1], FillPos(k)[2]).mergeId = cell.mergeId

\* the cell lies on the axis of the drag, on the side of the target, past the
\* last cell of the run: the stopping cell or a cell behind it
FillBeyond(cell) ==
    IF autofillDrag.direction = "horizontal"
    THEN /\ cell.rowIndex = autofillDrag.sourceRow
         /\ IF autofillDrag.currentCol > autofillDrag.sourceCol
            THEN cell.columnIndex > autofillDrag.sourceCol + FillRunLength
            ELSE cell.columnIndex < autofillDrag.sourceCol - FillRunLength
    ELSE /\ cell.columnIndex = autofillDrag.sourceCol
         /\ IF autofillDrag.currentRow > autofillDrag.sourceRow
            THEN cell.rowIndex > autofillDrag.sourceRow + FillRunLength
            ELSE cell.rowIndex < autofillDrag.sourceRow - FillRunLength

TakesFill(cell, k) ==
    LET runCell == GetCell(tableRows, FillPos(k)[1], FillPos(k)[2])
    IN  \/ cell.rowIndex = FillPos(k)[1] /\ cell.columnIndex = FillPos(k)[2]
        \/ runCell.isMerged /\ runCell.mergeId # << >> /\ cell.mergeId = runCell.mergeId

\* C13: the release of an autofill drag changes nothing but sequenceNumber,
\* and only on cells of the run or of the merge group of a run cell, which
\* all take that run cell's value; the source keeps its sequenceNumber, every
\* cell keeps isBlocked, isBlank, isMerged and mergeId, and the shape of the
\* grid and the counts stay.
C13_FillFrame ==
    [][ (lastOp'.name = "mouseup" /\ autofillDrag.active)
        => /\ CellPositions(tableRows') = CellPositions(tableRows)
           /\ Len(tableRows') = Len(tableRows)
           /\ rowCount' = rowCount /\ columnCount' = columnCount
           /\ \A i \in 1..Len(tableRows) : tableRows'[i].rowIndex = tableRows[i].rowIndex
           /\ \A p \in CellPositions(tableRows) :
                 LET old == tableRows[p[1]].cells[p[2]]
                     new == tableRows'[p[1]].cells[p[2]]
                 IN  /\ new = [ old EXCEPT !.sequenceNumber = new.sequenceNumber ]
                     /\ new.sequenceNumber # old.sequenceNumber
                        => \E k \in 1..FillRunLength : TakesFill(old, k)
                     /\ \A k \in 1..FillRunLength :
                           TakesFill(old, k)
                           => /\ isInteger(new.sequenceNumber)
                              /\ parseInt(new.sequenceNumber) = FillSourceValue + k
           /\ HasCell(tableRows, autofillDrag.sourceRow, autofillDrag.sourceCol)
              => SeqNumAt(tableRows', << autofillDrag.sourceRow, autofillDrag.sourceCol >>)
                   = SeqNumAt(tableRows, << autofillDrag.sourceRow, autofillDrag.sourceCol >>) ]_vars

\* (2,1) = 7 dragged to (2,4): the anchor (2,2) of the group and its hidden
\* cell (2,3) hold 8, while (2,4) keeps 9 and the group keeps its mergeId
C13_Witness ==
    /\ scn = "fill"
    /\ lastOp.name = "mouseup" /\ lastOp.row = 2 /\ lastOp.col = 4
    /\ HasCell(tableRows, 2, 4)
    /\ SeqNumAt(tableRows, << 2, 1 >>) = << "7" >>
    /\ SeqNumAt(tableRows, << 2, 2 >>) = << "8" >>
    /\ SeqNumAt(tableRows, << 2, 3 >>) = << "8" >>
    /\ SeqNumAt(tableRows, << 2, 4 >>) = << "9" >>
    /\ GetCell(tableRows, 2, 3).isMerged
    /\ GetCell(tableRows, 2, 3).mergeId = GetCell(tableRows, 2, 2).mergeId

\* what a save writes, and the grid it is taken from
PersistenceVars ==
    << useAttributeData, lastSavedDataRef, isSaving, rowCountAttribute, columnCountAttribute,
       ignoreAttributeUpdateRef >>

GridAndCounts == << tableRows, mergeSpans, rowCount, columnCount >>

\* C14: a release with no autofill drag active leaves the grid, the autofill
\* drag state, the preview and everything a save writes as they were; a
\* release of an active drag whose run is empty leaves the grid and
\* everything a save writes as they were.
C14_ReleaseNoOp ==
    [][ lastOp'.name = "mouseup"
        => /\ ~autofillDrag.active
              => /\ GridAndCounts' = GridAndCounts
                 /\ autofillDrag' = autofillDrag
                 /\ autofillPreviewCells' = autofillPreviewCells
                 /\ PersistenceVars' = PersistenceVars
           /\ (autofillDrag.active /\ FillRunLength = 0)
              => /\ GridAndCounts' = GridAndCounts
                 /\ PersistenceVars' = PersistenceVars ]_vars

\* the drag from (2,4) = 9 toward the hidden cell (2,3), released over (2,2):
\* the run is empty, the grid is the loaded one and the only save is the one
\* of the load
C14_Witness ==
    /\ scn = "fill"
    /\ lastOp.name = "mouseup" /\ lastOp.applied
    /\ lastOp.row = 2 /\ lastOp.col = 2
    /\ tableRows = validatedRows(SnapFill)
    /\ lastSavedDataRef = TableData(validatedRows(SnapFill), 3, 4)
    /\ ~autofillDrag.active

---------------------------------------------------------------------------
(* External updates and persistence *)

ExternalUpdates == { "load", "rowCountAttribute", "columnCountAttribute" }

\* C15: while a selection drag or an autofill drag is in progress, an
\* incoming snapshot or an external row / column count change leaves the
\* grid, the counts and the selection as they are.
C15_NoUpdateDuringDrag ==
    [][ ((isDragging \/ autofillDrag.active) /\ lastOp'.name \in ExternalUpdates)
        => /\ tableRows' = tableRows
           /\ rowCount' = rowCount
           /\ columnCount' = columnCount
           /\ selectedCells' = selectedCells ]_vars

\* C16: every write leaves its snapshot both in lastSavedDataRef and in the
\* external value; when the load effect runs unhindered by isSaving and finds
\* the external value equal to the last write, it leaves the grid, the counts
\* and the selection as they are and saves nothing.
C16_EchoSkipped ==
    [][ /\ lastSavedDataRef' # lastSavedDataRef
           => (lastSavedDataRef' = useAttributeData' /\ isSaving')
        /\ (/\ lastOp'.name = "isSavingTimeout"
            /\ useAttributeData = lastSavedDataRef
            /\ lastSavedDataRef # NoData)
           => /\ GridAndCounts' = GridAndCounts
              /\ selectedCells' = selectedCells
              /\ isSelectionMode' = isSelectionMode
              /\ lastSavedDataRef' = lastSavedDataRef
              /\ useAttributeData' = useAttributeData
              /\ ~isSaving' ]_vars

\* the save of Add Row has come back and was skipped: the selection made in
\* between is still there
C16_Witness ==
    /\ scn = "echo"
    /\ lastOp.name = "isSavingTimeout" /\ ~lastOp.applied
    /\ useAttributeData = lastSavedDataRef
    /\ lastSavedDataRef = TableData(tableRows, rowCount, columnCount)
    /\ Len(tableRows) = 3
    /\ selectedCells # << >>
    /\ ~isSaving

\* the handlers that commit a structural or value mutation
MutationHandlers ==
    { "handleCellValueChange", "onClick", "mergeCells", "unmergeCells",
      "blankSelectedCells", "unblankSelectedCells", "mouseup", "addRow", "addColumn",
      "initialCreate", "applyDimensions" }

\* C17: after every step of a mutation handler that changed the grid, the
\* snapshot last handed to persistence holds the current grid and a save
\* (which also triggers the change notification) is under way.
C17_MutationSaved ==
    [][ (lastOp'.name \in MutationHandlers /\ tableRows' # tableRows)
        => /\ lastSavedDataRef' # NoData
           /\ lastSavedDataRef'.tableRows = tableRows'
           /\ isSaving' ]_vars

---------------------------------------------------------------------------
(* Dimension ceiling *)

\* C18: no reachable grid has more than 100 rows or a row of more than 100
\* cells.
C18_Ceiling ==
    /\ Len(tableRows) <= MaxDimension
    /\ \A i \in 1..Len(tableRows) : Len(tableRows[i].cells) <= MaxDimension

ValidDimension(n) == n >= 1 /\ n <= MaxDimension

\* C19: Generate Table with a row or column count outside 1..100 creates no
\* grid: cells, merge spans and selection stay, and nothing is written to the
\* count attributes or handed to persistence.
C19_InvalidDimensionsRejected ==
    [][ (/\ lastOp'.name = "applyDimensions"
         /\ ~(ValidDimension(rowCount) /\ ValidDimension(columnCount)))
        => /\ GridAndCounts' = GridAndCounts
           /\ selectedCells' = selectedCells
           /\ isSelectionMode' = isSelectionMode
           /\ PersistenceVars' = PersistenceVars ]_vars

\* Generate Table was pressed with 101 rows on an existing grid with a
\* selection, and both are still there
C19_Witness ==
    /\ scn = "limit"
    /\ lastOp.name = "applyDimensions" /\ ~lastOp.applied
    /\ rowCount = MaxDimension + 1
    /\ tableRows # << >>
    /\ selectedCells # << >>

\* C20: Add Row with rowCount + 1 above 100, and Add Column with
\* columnCount + 1 above 100, change neither the grid nor the counts nor
\* anything a save writes.
C20_AddBeyondLimit ==
    [][ (\/ lastOp'.name = "addRow" /\ rowCount + 1 > MaxDimension
         \/ lastOp'.name = "addColumn" /\ columnCount + 1 > MaxDimension)
        => /\ GridAndCounts' = GridAndCounts
           /\ PersistenceVars' = PersistenceVars
           /\ isUserInputRef' = isUserInputRef ]_vars

\* Add Row was pressed on a grid whose row count is 100
C20_Witness ==
    /\ scn = "limit"
    /\ lastOp.name = "addRow" /\ ~lastOp.applied
    /\ rowCount = MaxDimension
    /\ tableRows # << >>

---------------------------------------------------------------------------
(* Growth, value and blocked flag *)

\* the grid has R rows of C cells each
IsGrid(rows, R, C) ==
    /\ Len(rows) = R
    /\ \A i \in 1..R : Len(rows[i].cells) = C

GridWidths(rows) == { Len(rows[i].cells) : i \in 1..Len(rows) }

\* a cell with the default values
IsDefaultCell(cell) ==
    /\ cell.sequenceNumber = Dash
    /\ ~cell.isBlocked /\ ~cell.isMerged /\ ~cell.isBlank
    /\ cell.mergeId = << >>

\* C21: a successful Add Column on an R x C grid gives an R x (C+1) grid:
\* every old cell is unchanged and every row ends with one default cell of
\* columnIndex C+1; a successful Add Row appends one row of C default cells
\* behind the unchanged rows; the merge spans of the new grid are those of the
\* old one.
C21_AppendFrame ==
    [][ \A C \in GridWidths(tableRows) :
          IsGrid(tableRows, Len(tableRows), C)
          => /\ (lastOp'.name = "addColumn" /\ lastOp'.applied)
                => /\ IsGrid(tableRows', Len(tableRows), C + 1)
                   /\ \A i \in 1..Len(tableRows) :
                         /\ SubSeq(tableRows'[i].cells, 1, C) = tableRows[i].cells
                         /\ IsDefaultCell(tableRows'[i].cells[C + 1])
                         /\ tableRows'[i].cells[C + 1].columnIndex = C + 1
                   /\ computeMergeSpans(tableRows') = computeMergeSpans(tableRows)
             /\ (lastOp'.name = "addRow" /\ lastOp'.applied)
                => /\ IsGrid(tableRows', Len(tableRows) + 1, C)
                   /\ SubSeq(tableRows', 1, Len(tableRows)) = tableRows
                   /\ \A j \in 1..C :
                         IsDefaultCell(tableRows'[Len(tableRows) + 1].cells[j])
                   /\ computeMergeSpans(tableRows') = computeMergeSpans(tableRows) ]_vars

\* the cell at position (i, j) is the one find() returns for (r, c), or it
\* shares the non-empty mergeId of that cell
Addressed(i, j, r, c) ==
    \/ /\ tableRows[i].rowIndex = r /\ tableRows[i].cells[j].columnIndex = c
       /\ IsFirstMatch(tableRows, i, j)
    \/ /\ GetCell(tableRows, r, c).mergeId # << >>
       /\ tableRows[i].cells[j].mergeId = GetCell(tableRows, r, c).mergeId

\* C22: setting a value at (row, col) writes it as sequenceNumber on the cell
\* there and on every cell sharing its non-empty mergeId; toggling the
\* blocked flag there writes the negation of that cell's isBlocked on the
\* same cells; every other cell and field is unchanged, and when no cell is
\* at (row, col) the grid is unchanged.
C22_ValueAndBlock ==
    [][ /\ lastOp'.name = "handleCellValueChange"
           => IF ~HasCell(tableRows, lastOp'.row, lastOp'.col)
              THEN tableRows' = tableRows
              ELSE \E v \in InputValues :
                      tableRows' =
                        [ i \in 1..Len(tableRows) |->
                            [ tableRows[i] EXCEPT !.cells =
                                [ j \in 1..Len(tableRows[i].cells) |->
                                    IF Addressed(i, j, lastOp'.row, lastOp'.col)
                                    THEN [ tableRows[i].cells[j] EXCEPT !.sequenceNumber = v ]
                                    ELSE tableRows[i].cells[j] ] ] ]
        /\ (\/ lastOp'.name = "handleCheckboxChange"
            \/ lastOp'.name = "onClick" /\ props.enableCheckbox)
           => IF ~HasCell(tableRows, lastOp'.row, lastOp'.col)
              THEN tableRows' = tableRows
              ELSE tableRows' =
                     [ i \in 1..Len(tableRows) |->
                         [ tableRows[i] EXCEPT !.cells =
                             [ j \in 1..Len(tableRows[i].cells) |->
                                 IF Addressed(i, j, lastOp'.row, lastOp'.col)
                                 THEN [ tableRows[i].cells[j] EXCEPT !.isBlocked =
                                          ~GetCell(tableRows, lastOp'.row, lastOp'.col).isBlocked ]
                                 ELSE tableRows[i].cells[j] ] ] ] ]_vars

\* the blocked flag of the loaded group was toggled at its anchor (1,1)
\* after the dash was typed there: the hidden cell (1,2) is blocked and
\* holds the dash too
C22_Witness ==
    /\ scn = "value"
    /\ lastOp.name = "handleCheckboxChange" /\ lastOp.row = 1 /\ lastOp.col = 1
    /\ HasCell(tableRows, 1, 1)
    /\ GetCell(tableRows, 1, 1).isBlocked
    /\ GetCell(tableRows, 1, 2).isBlocked
    /\ HasCell(tableRows, 1, 2)
    /\ GetCell(tableRows, 1, 1).isMerged
    /\ GetCell(tableRows, 1, 2).mergeId = GetCell(tableRows, 1, 1).mergeId
    /\ SeqNumAt(tableRows, << 1, 1 >>) = Dash
    /\ SeqNumAt(tableRows, << 1, 2 >>) = Dash

----------------------------------------------------------------------------
(* Loading *)

\* the snapshot has rows: 0 or columns: 0, lacks tableRows, or lists no row
Malformed(tableData) ==
    \/ "tableRows" \notin DOMAIN tableData
    \/ tableData.rows = 0
    \/ tableData.columns = 0
    \/ tableData.tableRows = << >>

\* C23: a malformed snapshot (rows 0, columns 0, no tableRows, no row) is
\* turned away and the grid stays as it was, and once a grid was created or
\* loaded the grid is never empty.
C23_MalformedRejected ==
    [][ /\ (lastOp'.name = "load" /\ Malformed(useAttributeData'))
             => tableRows' = tableRows /\ mergeSpans' = mergeSpans
        /\ dataLoaded' => tableRows' # << >> ]_vars

----------------------------------------------------------------------------
(* Merge groups *)

\* the positions of the cells that carry mergeId m
Carrying(m) ==
    { p \in CellPositions(tableRows) : tableRows[p[1]].cells[p[2]].mergeId = m }

\* C24: of the cells carrying the mergeId of a merge group with span
\* (rowSpan, colSpan), exactly rowSpan * colSpan - 1 are hidden and exactly
\* one, the anchor, is not.
C24_HiddenCount ==
    \A m \in DOMAIN mergeSpans :
        LET hidden == { p \in Carrying(m) :
                          isCellHidden(tableRows[p[1]].cells[p[2]], mergeSpans) }
        IN  /\ Cardinality(hidden) = mergeSpans[m].rowSpan * mergeSpans[m].colSpan - 1
            /\ Cardinality(Carrying(m) \ hidden) = 1

\* the cells of the grid that are merged and carry the non-empty mergeId m
MergedWith(m) ==
    { cell \in CellsOf(tableRows) : cell.isMerged /\ cell.mergeId = m }

\* C25: computeMergeSpans of the grid has one entry per non-empty mergeId
\* carried by a merged cell, and the entry is the bounding box of those
\* cells: every one of them lies in the box, and each of the four sides of
\* the box holds one of them.
C25_SpansAreBoundingBoxes ==
    LET spans == computeMergeSpans(tableRows)
    IN  /\ DOMAIN spans = { cell.mergeId : cell \in { x \in CellsOf(tableRows) :
                                                       x.isMerged /\ x.mergeId # << >> } }
        /\ \A m \in DOMAIN spans :
              LET top    == spans[m].anchorRow
                  left   == spans[m].anchorCol
                  bottom == spans[m].anchorRow + spans[m].rowSpan - 1
                  right  == spans[m].anchorCol + spans[m].colSpan - 1
              IN  /\ \A cell \in MergedWith(m) :
                        /\ top <= cell.rowIndex /\ cell.rowIndex <= bottom
                        /\ left <= cell.columnIndex /\ cell.columnIndex <= right
                  /\ \E cell \in MergedWith(m) : cell.rowIndex = top
                  /\ \E cell \in MergedWith(m) : cell.rowIndex = bottom
                  /\ \E cell \in MergedWith(m) : cell.columnIndex = left
                  /\ \E cell \in MergedWith(m) : cell.columnIndex = right

\* the grid holds a merge group of four cells, two rows high and two
\* columns wide
C25_Witness ==
    \E m \in DOMAIN computeMergeSpans(tableRows) :
        /\ Cardinality(MergedWith(m)) = 4
        /\ computeMergeSpans(tableRows)[m].rowSpan = 2
        /\ computeMergeSpans(tableRows)[m].colSpan = 2

----------------------------------------------------------------------------
(* Statistics *)

\* the positions of the cells that are not hidden
VisiblePositions ==
    { p \in CellPositions(tableRows) :
        ~isCellHidden(tableRows[p[1]].cells[p[2]], mergeSpans) }

\* C26: the four statistics of a grid count cells that are not hidden only:
\* all of them, the blocked, the merged and the blank ones.
C26_HiddenExcluded ==
    tableRows # << >> =>
        /\ cellStatistics.totalCells = Cardinality(VisiblePositions)
        /\ cellStatistics.blockedCells =
             Cardinality({ p \in VisiblePositions : tableRows[p[1]].cells[p[2]].isBlocked })
        /\ cellStatistics.mergedCells =
             Cardinality({ p \in VisiblePositions : tableRows[p[1]].cells[p[2]].isMerged })
        /\ cellStatistics.blankCells =
             Cardinality({ p \in VisiblePositions : tableRows[p[1]].cells[p[2]].isBlank })

\* the second grid has every row of the first, each at least as wide
NotSmaller(rows, rows2) ==
    /\ Len(rows2) >= Len(rows)
    /\ \A i \in 1..Len(rows) : Len(rows2[i].cells) >= Len(rows[i].cells)

\* C27 as stated: once a grid exists, no step decreases its number of rows
\* or of columns.
C27_NeverShrinks ==
    [][ tableRows # << >> => NotSmaller(tableRows, tableRows') ]_vars

\* the steps that put a whole new grid in place: the mount timer's
\* createNewTable, Generate Table, and the load of a snapshot, at once or
\* when the save that held it back ends
Replacements == { "initialCreate", "applyDimensions", "load", "isSavingTimeout" }

\* C27: once a grid exists, no step other than the creation of a new table
\* and the load of a snapshot decreases its number of rows or of columns.
C27_ShrinksOnlyByReplacement ==
    [][ (tableRows # << >> /\ lastOp'.name \notin Replacements)
           => NotSmaller(tableRows, tableRows') ]_vars

\* Add Column has widened the 2 x 2 grid
C27_Witness ==
    /\ lastOp.name = "addColumn" /\ lastOp.applied
    /\ IsGrid(tableRows, 2, 3)

\* C28: two merge groups that exist at the same time never share a mergeId:
\* the mergeId that a Merge step writes is carried by no cell that the step
\* leaves as it was.
C28_FreshMergeId ==
    [][ (lastOp'.name = "mergeCells" /\ lastOp'.applied)
           => LET both    == CellPositions(tableRows) \cap CellPositions(tableRows')
                  written == { p \in both :
                                 /\ tableRows'[p[1]].cells[p[2]].mergeId # << >>
                                 /\ tableRows'[p[1]].cells[p[2]] # tableRows[p[1]].cells[p[2]] }
                  kept    == { p \in both :
                                 tableRows'[p[1]].cells[p[2]] = tableRows[p[1]].cells[p[2]] }
              IN  { tableRows'[p[1]].cells[p[2]].mergeId : p \in written }
                    \cap { tableRows[p[1]].cells[p[2]].mergeId : p \in kept } = { } ]_vars

\* the rectangle of indices that spans[m] describes
BoxOf(spans, m) ==
    [ minRow |-> spans[m].anchorRow,
      maxRow |-> spans[m].anchorRow + spans[m].rowSpan - 1,
      minCol |-> spans[m].anchorCol,
      maxCol |-> spans[m].anchorCol + spans[m].colSpan - 1 ]

\* two rectangles of indices share a coordinate
BoxesOverlap(a, b) ==
    /\ a.minRow <= b.maxRow /\ b.minRow <= a.maxRow
    /\ a.minCol <= b.maxCol /\ b.minCol <= a.maxCol

\* C29: in a run of merge, unmerge, blank, unblank, set-value, toggle-block,
\* autofill, Add Row and Add Column on a freshly created grid, the cells
\* carrying a mergeId fill the bounding box of their group exactly (every
\* coordinate of the box holds a cell that carries the mergeId), and
\* the bounding boxes of different groups do not overlap.
C29_GroupsFillBoxes ==
    Alphabet \subseteq EditingOperations =>
        LET spans == computeMergeSpans(tableRows)
        IN  /\ \A m \in DOMAIN spans :
                  \A r \in BoxOf(spans, m).minRow .. BoxOf(spans, m).maxRow :
                     \A c \in BoxOf(spans, m).minCol .. BoxOf(spans, m).maxCol :
                        \E x \in CellsOf(tableRows) :
                           x.rowIndex = r /\ x.columnIndex = c /\ x.mergeId = m
            /\ \A m \in DOMAIN spans :
                  \A x \in CellsOf(tableRows) :
                     x.mergeId = m => InRect(BoxOf(spans, m), x.rowIndex, x.columnIndex)
            /\ \A m1, m2 \in DOMAIN spans :
                  m1 # m2 => ~BoxesOverlap(BoxOf(spans, m1), BoxOf(spans, m2))

----------------------------------------------------------------------------
(* Selection *)

\* C30: every id in the selection is the id of a cell of the current grid,
\* also when the grid was replaced between the press and the release of a
\* selection drag.
C30_SelectionInGrid ==
    \A id \in SetOf(selectedCells) : \E x \in CellsOf(tableRows) : idOf(x) = id

\* the ids of the rectangle between two cells, rows [min, max] x cols [min, max]
RectIds(a, b) ==
    { CellId(r, c) : r \in Min({ a.row, b.row }) .. Max({ a.row, b.row }),
                     c \in Min({ a.col, b.col }) .. Max({ a.col, b.col }) }

\* C31: in a selection drag the press keeps the selection it found as the
\* pre-selection snapshot; after each hover over (r, c) the selection is that
\* snapshot united with the ids of the rectangle between the drag-start cell
\* and (r, c), and nothing else; the release keeps the selection, ends the
\* drag and empties the snapshot.
C31_DragSelection ==
    [][ /\ (lastOp'.name = "handleCellMouseDown" /\ lastOp'.applied)
             => /\ preSelectionRef' = selectedCells
                /\ dragStartCell' = [ row |-> lastOp'.row, col |-> lastOp'.col ]
        /\ (lastOp'.name = "onMouseEnter" /\ isDragging)
             => /\ SetOf(selectedCells') =
                     SetOf(preSelectionRef)
                       \cup RectIds(dragStartCell, [ row |-> lastOp'.row, col |-> lastOp'.col ])
                /\ UNCHANGED << isDragging, dragStartCell, preSelectionRef >>
        /\ (lastOp'.name = "mouseup" /\ isDragging)
             => /\ selectedCells' = selectedCells
                /\ ~isDragging'
                /\ dragStartCell' = NoCell
                /\ preSelectionRef' = << >> ]_vars

\* a drag from (2,1) went over (1,1) and came back to (2,1): the selection
\* is the pressed cell alone again
C31_Witness ==
    /\ scn = "select"
    /\ steps = 4
    /\ lastOp.name = "onMouseEnter" /\ lastOp.row = 2 /\ lastOp.col = 1
    /\ isDragging /\ dragStartCell = [ row |-> 2, col |-> 1 ]
    /\ selectedCells = << CellId(2, 1) >>

----------------------------------------------------------------------------
(* Autofill drag *)

\* |a - b|
Distance(a, b) == IF a >= b THEN a - b ELSE b - a

\* C34: on every hover during an autofill drag the direction is inferred
\* from the source (sr, sc) and the hovered cell (r, c) alone: none on the
\* source itself, horizontal in the source row, vertical in the source
\* column, and elsewhere horizontal when |c - sc| >= |r - sr| and vertical
\* otherwise.
C34_Direction ==
    [][ (lastOp'.name = "onMouseEnter" /\ autofillDrag.active)
          => LET sr == autofillDrag.sourceRow
                 sc == autofillDrag.sourceCol
                 r  == lastOp'.row
                 c  == lastOp'.col
             IN  /\ autofillDrag'.sourceRow = sr /\ autofillDrag'.sourceCol = sc
                 /\ autofillDrag'.direction =
                      CASE r = sr /\ c = sc -> "none"
                        [] r = sr /\ c # sc -> "horizontal"
                        [] r # sr /\ c = sc -> "vertical"
                        [] r # sr /\ c # sc ->
                             IF Distance(c, sc) >= Distance(r, sr)
                             THEN "horizontal" ELSE "vertical" ]_vars

\* a hover one row and one column away from the source: the tie went to
\* horizontal
C34_Witness ==
    /\ lastOp.name = "onMouseEnter" /\ autofillDrag.active
    /\ Distance(lastOp.row, autofillDrag.sourceRow) = 1
    /\ Distance(lastOp.col, autofillDrag.sourceCol) = 1
    /\ autofillDrag.direction = "horizontal"

\* the direction that the source and the cell hovered last give
DirectionOf(sr, sc, r, c) ==
    IF r = sr /\ c = sc THEN "none"
    ELSE IF r = sr THEN "horizontal"
    ELSE IF c = sc THEN "vertical"
    ELSE IF Distance(c, sc) >= Distance(r, sr) THEN "horizontal" ELSE "vertical"

\* C35: the run committed on release is the run from the source towards the
\* cell hovered last, whatever was hovered before: the direction of the drag
\* state is the one that the source and that cell give, the grid after the
\* release is the fill of that run, and when that cell is the source (also
\* when nothing was hovered since the handle press) the release changes no
\* cell.
C35_LastHoverDecides ==
    [][ (lastOp'.name = "mouseup" /\ autofillDrag.active)
          => LET sr  == autofillDrag.sourceRow
                 sc  == autofillDrag.sourceCol
                 r   == autofillDrag.currentRow
                 c   == autofillDrag.currentCol
                 dir == DirectionOf(sr, sc, r, c)
             IN  /\ autofillDrag.direction = dir
                 /\ tableRows' =
                      applyFill(tableRows,
                                getAutofillCells(tableRows, mergeSpans, sr, sc,
                                                 IF dir = "horizontal" THEN sr ELSE r,
                                                 IF dir = "vertical" THEN sc ELSE c, dir))
                 /\ (r = sr /\ c = sc) => tableRows' = tableRows ]_vars

\* an autofill drag whose source could only be (1,1) was released on (1,1)
\* and the grid is the loaded one
C35_Witness ==
    /\ scn = "fill"
    /\ lastOp.name = "mouseup" /\ lastOp.applied
    /\ lastOp.row = 1 /\ lastOp.col = 1
    /\ steps = 5
    /\ tableRows = validatedRows(SnapFill)

\* the text is an optionally signed base-10 integer
SignedDecimal(text) ==
    LET digits == IF text # << >> /\ Head(text) = "-" THEN Tail(text) ELSE text
    IN  digits # << >> /\ \A i \in 1..Len(digits) : IsDigit(digits[i])

\* C36: the autofill drag becomes active only by a handle press on an
\* existing cell whose sequenceNumber is an optionally signed base-10
\* integer, and then has that cell as source; a handle press on another cell
\* changes neither the drag state nor the preview, the grid or the selection;
\* a hover keeps an active drag active with the same source; after a pointer
\* release the drag is inactive with direction none and the preview is empty.
C36_DragLifecycle ==
    [][ /\ (~autofillDrag.active /\ autofillDrag'.active)
             => /\ lastOp'.name = "handleAutofillHandleMouseDown"
                /\ \E x \in CellsOf(tableRows) :
                      /\ x.rowIndex = lastOp'.row /\ x.columnIndex = lastOp'.col
                      /\ SignedDecimal(x.sequenceNumber)
                /\ autofillDrag'.sourceRow = lastOp'.row
                /\ autofillDrag'.sourceCol = lastOp'.col
                /\ autofillDrag'.direction = "none"
                /\ autofillPreviewCells' = { }
        /\ (/\ lastOp'.name = "handleAutofillHandleMouseDown"
            /\ \A x \in CellsOf(tableRows) :
                  (x.rowIndex = lastOp'.row /\ x.columnIndex = lastOp'.col)
                     => ~SignedDecimal(x.sequenceNumber))
             => UNCHANGED << autofillDrag, autofillPreviewCells, tableRows, mergeSpans,
                             selectedCells, isSelectionMode, isDragging, dragStartCell,
                             preSelectionRef >>
        /\ (lastOp'.name = "onMouseEnter" /\ autofillDrag.active)
             => /\ autofillDrag'.active
                /\ autofillDrag'.sourceRow = autofillDrag.sourceRow
                /\ autofillDrag'.sourceCol = autofillDrag.sourceCol
                /\ autofillDrag'.sourceValue = autofillDrag.sourceValue
        /\ lastOp'.name = "mouseup"
             => /\ ~autofillDrag'.active
                /\ autofillDrag'.direction = "none"
                /\ autofillPreviewCells' = { } ]_vars

\* the handle of the cell holding -4 was pressed: the drag is active with
\* source value -4
C36_Witness ==
    /\ scn = "press"
    /\ lastOp.name = "handleAutofillHandleMouseDown" /\ lastOp.applied
    /\ autofillDrag.active
    /\ autofillDrag.sourceRow = lastOp.row /\ autofillDrag.sourceCol = lastOp.col
    /\ autofillDrag.sourceValue = -4

\* ids of the cells that fillCells.forEach of a release finds and writes
WrittenIds ==
    LET fillCells == commitRun(tableRows, mergeSpans, autofillDrag)
    IN  { CellId(fillCells[k].row, fillCells[k].col) :
            k \in { n \in 1..Len(fillCells) :
                      HasCell(tableRows, fillCells[n].row, fillCells[n].col) } }

\* the cell shares the merge group of a merged cell with one of the ids
InGroupOf(cell, ids) ==
    /\ cell.mergeId # << >>
    /\ \E p \in CellPositions(tableRows) :
          /\ idOf(tableRows[p[1]].cells[p[2]]) \in ids
          /\ tableRows[p[1]].cells[p[2]].isMerged
          /\ tableRows[p[1]].cells[p[2]].mergeId = cell.mergeId

\* C37: when a release follows the last hover of an autofill drag with no
\* step in between, the cells the commit writes are exactly the cells of the
\* preview set of that hover: every cell whose sequenceNumber differs after
\* the release is a previewed cell or shares the merge group of one, and
\* every previewed cell holds an integer afterwards.
C37_CommitMatchesPreview ==
    [][ (lastOp.name = "onMouseEnter" /\ autofillDrag.active /\ lastOp'.name = "mouseup")
        => /\ WrittenIds = autofillPreviewCells
           /\ CellPositions(tableRows') = CellPositions(tableRows)
           /\ \A p \in CellPositions(tableRows) :
                 LET cell == tableRows[p[1]].cells[p[2]]
                 IN  /\ tableRows'[p[1]].cells[p[2]].sequenceNumber # cell.sequenceNumber
                        => \/ idOf(cell) \in autofillPreviewCells
                           \/ InGroupOf(cell, autofillPreviewCells)
                     /\ idOf(cell) \in autofillPreviewCells
                        => isInteger(tableRows'[p[1]].cells[p[2]].sequenceNumber) ]_vars

\* (1,1) = 5 dragged down to (3,1) and released there: the two previewed
\* cells (2,1) and (3,1) hold 6 and 7, and the rest of the grid is as loaded
C37_Witness ==
    /\ scn = "fill"
    /\ lastOp.name = "mouseup" /\ lastOp.row = 3 /\ lastOp.col = 1
    /\ steps = 4
    /\ HasCell(tableRows, 3, 1)
    /\ SeqNumAt(tableRows, << 1, 1 >>) = << "5" >>
    /\ SeqNumAt(tableRows, << 2, 1 >>) = << "6" >>
    /\ SeqNumAt(tableRows, << 3, 1 >>) = << "7" >>
    /\ SeqNumAt(tableRows, << 2, 4 >>) = << "9" >>
    /\ SeqNumAt(tableRows, << 3, 3 >>) = << "-", "4" >>
    /\ autofillPreviewCells = { }

---------------------------------------------------------------------------
(* Merge-span index, load and blanking *)

DefaultsFilled(rows, snapshot) ==
    /\ "tableRows" \in DOMAIN snapshot
    /\ Len(rows) = Len(snapshot.tableRows)
    /\ \A i \in 1..Len(rows) :
          /\ Len(rows[i].cells) = Len(snapshot.tableRows[i].cells)
          /\ \A j \in 1..Len(rows[i].cells) :
                LET given == DOMAIN snapshot.tableRows[i].cells[j]
                    cell  == rows[i].cells[j]
                IN  /\ "isBlocked" \notin given => cell.isBlocked = FALSE
                    /\ "isMerged" \notin given => cell.isMerged = FALSE
                    /\ "isBlank" \notin given => cell.isBlank = FALSE
                    /\ "sequenceNumber" \notin given => cell.sequenceNumber = Dash

\* C39: after a snapshot load that was accepted, at once or when the save
\* that deferred it ends, every row's rowIndex and every cell's rowIndex and
\* columnIndex are its 1-based position in its array whatever the snapshot
\* said, every boolean field the snapshot lacks is FALSE and every
\* sequenceNumber it lacks is "-", the selection is empty and selection mode
\* is off.
C39_LoadNormalises ==
    [][ (lastOp'.name \in { "load", "isSavingTimeout" } /\ lastOp'.applied)
        => /\ \A i \in 1..Len(tableRows') :
                 /\ tableRows'[i].rowIndex = i
                 /\ \A j \in 1..Len(tableRows'[i].cells) :
                       /\ tableRows'[i].cells[j].rowIndex = i
                       /\ tableRows'[i].cells[j].columnIndex = j
           /\ \E snapshot \in (IF lastOp'.name = "load" THEN Snapshots
                                ELSE { useAttributeData }) :
                 DefaultsFilled(tableRows', snapshot)
           /\ selectedCells' = << >>
           /\ isSelectionMode' = FALSE ]_vars

\* the snapshot whose second cell says columnIndex 7 and nothing else was
\* loaded over a grid that had been worked on: the cell is (1,2), holds "-"
\* and is neither blocked, merged nor blank
C39_Witness ==
    /\ lastOp.name = "load" /\ lastOp.applied
    /\ steps >= 3
    /\ Len(tableRows) = 1 /\ Len(tableRows[1].cells) = 2
    /\ tableRows[1].cells[1].isMerged
    /\ tableRows[1].cells[2] =
          [ sequenceNumber |-> Dash, isBlocked |-> FALSE, isMerged |-> FALSE,
            mergeId |-> << >>, isBlank |-> FALSE, rowIndex |-> 1, columnIndex |-> 2 ]
    /\ selectedCells = << >> /\ ~isSelectionMode

\* positions of the cells that the updater of blank / unblank finds for the
\* ids of the selection and does not skip as hidden
BlankHit ==
    { << FindRow(tableRows, ParseCellId(id).row),
         FindCol(tableRows[FindRow(tableRows, ParseCellId(id).row)].cells,
                 ParseCellId(id).col) >> :
        id \in { x \in SetOf(selectedCells) :
                   /\ HasCell(tableRows, ParseCellId(x).row, ParseCellId(x).col)
                   /\ ~isCellHidden(GetCell(tableRows, ParseCellId(x).row,
                                            ParseCellId(x).col), mergeSpans) } }

\* positions of the cells of the merge groups of those cells
BlankGroupCells ==
    LET groups == { tableRows[p[1]].cells[p[2]].mergeId : p \in BlankHit } \ { << >> }
    IN  { p \in CellPositions(tableRows) : tableRows[p[1]].cells[p[2]].mergeId \in groups }

\* the step kept the shape of the grid and every field of every cell but
\* isBlank
OnlyIsBlankChanged ==
    /\ Len(tableRows') = Len(tableRows)
    /\ \A i \in 1..Len(tableRows) :
          /\ tableRows'[i].rowIndex = tableRows[i].rowIndex
          /\ Len(tableRows'[i].cells) = Len(tableRows[i].cells)
          /\ \A j \in 1..Len(tableRows[i].cells) :
                [ tableRows'[i].cells[j] EXCEPT !.isBlank = tableRows[i].cells[j].isBlank ]
                    = tableRows[i].cells[j]

\* C40 as stated: blank and unblank change no field other than isBlank and
\* keep the shape of the grid, and after a blank of a selection none of whose
\* merge groups held a blank cell, the unblank of the same selection gives
\* back the grid held before the blank.
C40_BlankRoundTrip ==
    [][ /\ lastOp'.name \in { "blankSelectedCells", "unblankSelectedCells" }
           => OnlyIsBlankChanged
        /\ ( /\ lastOp'.name = "blankSelectedCells" /\ lastOp'.applied
             /\ \A p \in BlankGroupCells : ~tableRows[p[1]].cells[p[2]].isBlank )
           => setBlankRows(tableRows', selectedCells, mergeSpans', FALSE) = tableRows ]_vars

\* C40, amended: blank and unblank change no field other than isBlank and
\* keep the shape of the grid, and after a blank of a selection for which no
\* cell that the blank writes (a selected cell that is not hidden, or a cell
\* of the merge group of one) was blank, the unblank of the same selection
\* gives back the grid held before the blank.
C40_BlankRoundTripOfNonBlank ==
    [][ /\ lastOp'.name \in { "blankSelectedCells", "unblankSelectedCells" }
           => OnlyIsBlankChanged
        /\ ( /\ lastOp'.name = "blankSelectedCells" /\ lastOp'.applied
             /\ \A p \in BlankHit \cup BlankGroupCells : ~tableRows[p[1]].cells[p[2]].isBlank )
           => setBlankRows(tableRows', selectedCells, mergeSpans', FALSE) = tableRows ]_vars

\* a blank has written both cells of the merge group of the first row, which
\* keep 5 and their mergeId, while (2,1) is not blank
C40_Witness ==
    /\ lastOp.name = "blankSelectedCells" /\ lastOp.applied
    /\ Len(tableRows) = 2 /\ Len(tableRows[1].cells) = 2 /\ Len(tableRows[2].cells) = 2
    /\ tableRows[1].cells[1].isBlank /\ tableRows[1].cells[2].isBlank
    /\ tableRows[1].cells[1].isMerged
    /\ tableRows[1].cells[1].mergeId = tableRows[1].cells[2].mergeId
    /\ tableRows[1].cells[1].sequenceNumber = << "5" >>
    /\ tableRows[1].cells[2].sequenceNumber = << "5" >>
    /\ ~tableRows[2].cells[1].isBlank
    /\ setBlankRows(tableRows, << CellId(1, 1) >>, mergeSpans, FALSE)
          = validatedRows(SnapMerged)

=============================================================================
